---------------------------- MODULE Spec2Model ----------------------------
(***************************************************************************)
(* Verification model of the Degenter indexer back end.                    *)
(*                                                                         *)
(* The module holds several specifications over one set of variables; a   *)
(* specification leaves the variables of the other parts at their initial *)
(* values.                                                                 *)
(*                                                                         *)
(*   SpecBatch   lib/batch.js BatchQueue: push, timer, microtask flush,    *)
(*               drain, single-flight flush                                *)
(***************************************************************************)
EXTENDS Integers, Sequences, FiniteSets, TLC

VARIABLES
  \* ---- lib/batch.js: one BatchQueue and its user ----
  bq,          \* the BatchQueue object: queue, timer, flushing, pending microtasks, running flushFn calls
  bqPushed,    \* number of push() calls made so far (items are numbered 1, 2, ...)
  bqWritten,   \* items whose flushFn call resolved
  bqLost,      \* items whose flushFn call rejected
  bqReported,  \* items of rejected batches whose rejection reached a caller of the queue
  drainPc,     \* the caller of drain(): "idle", "waiting", "resolved", "rejected"
  drainSnap,   \* the items pushed before the pending drain() was called
  \* ---- bin/start-indexer.js: the driver, its in-flight heights and the three batch writers ----
  tip,         \* the chain's latest block height (what /status reports)
  tip0,        \* const tip0: the height /status reported at startup
  start,       \* the height the run starts at (info 'startup heights' start)
  current,     \* let current: the next height to hand to processHeight
  tipNow,      \* const tipNow of the current round of the while loop
  inflight,    \* const inflight: the heights whose promise is in the Map
  keys,        \* commitInOrder: the sorted keys not yet committed
  mainPc,      \* main(): "status", "await", "ckpt", "resume", "drain", "crashed"
  proc,        \* per height, where its processHeight call stands
  writers,     \* the three BatchQueue objects (tradesQueue, stateQueue, ohlcvQueue)
  drains,      \* drainAll(): per writer the state of its drain() promise
  lastHeight,  \* index_state.last_height (0: no row)
  ckptLog,     \* the heights passed to writeCheckpoint in this run, in call order
  stored,      \* per writer the heights whose item a resolved flushFn wrote
  settled,     \* the heights in the order their processHeight promise settled
  errLog,      \* the heights whose error commitInOrder passed to err()
  \* ---- core/block-processor.js: one processHeight(h) call ----
  blk,         \* the block: per tx whether it holds a create_pair and how many swap/liquidity events
  scanI,       \* the scan loop's i: the next tx to scan
  poolTasks,   \* const poolTasks
  tasks,       \* const tasks
  phPc,        \* processHeight: "scan", "interim", "pools", "prefetch", "core", "lowprio", "done", "failed"
  runList,     \* runWithConcurrency: its tasks argument
  runNext,     \* runWithConcurrency: let i, the next index to take (from 1)
  active,      \* runWithConcurrency: the tasks a worker is awaiting
  started,     \* tasks of the block that were called
  finished,    \* tasks of the block that settled
  poolRows,    \* txs of the block whose created pool has its row in pools
  enqueued,    \* swap / liquidity tasks that called insertTrade
  \* ---- core/ohlcv.js: the ohlcvQueue and the ohlcv_1m table ----
  ohlcv,       \* table ohlcv_1m: per (pool_id, bucket_start) its row, or NoRow
  cq,          \* ohlcvQueue, a BatchQueue of candle items
  crows,       \* flushFn: rowsWithOpens of the running flush
  cpushed,     \* number of upsertOHLCV1m calls made so far
  cfirst,      \* per (pool_id, bucket_start) the price of the first item pushed
  \* ---- one indexer process after another over the same database ----
  itip,        \* height of the chain tip, as status() reports it
  iblk,        \* swap events of the block at the tip, in task order
  isaved,      \* index_state.last_height (0: no row)
  trades,      \* table trades: rows per natural key
  pool_state,  \* table pool_state: reserves per pool_id, or Null
  candles,     \* table ohlcv_1m
  tradesQueue, \* items queued in tradesQueue
  stateQueue,  \* items queued in stateQueue
  ohlcvQueue,  \* items queued in ohlcvQueue
  ipc,         \* position of main(): "scan", "ckpt", "drain", "sleep"
  icur,        \* main's current
  ij,          \* index of the next swap task of processHeight(icur)
  restarts,    \* number of times the process was started again
  passes,      \* completed and drained processHeight passes of the tip
  firstPass,   \* trades and pool_state as the first completed pass left them
  \* ---- two candle batches flushed in either order ----
  cmA,         \* the first batch
  cmB,         \* the second batch
  cmAB,        \* ohlcv_1m where cmA is flushed before cmB
  cmBA,        \* ohlcv_1m where cmB is flushed before cmA
  cmDoneAB,    \* flushes done on cmAB
  cmDoneBA,    \* flushes done on cmBA
  \* ---- one flush of stateQueue ----
  psItems,     \* the items handed to stateQueue.flushFn
  psBefore,    \* pool_state before the flush
  psTable,     \* pool_state
  psSql,       \* rows of the UPSERT statement the flush sent (<<>>: none yet)
  \* ---- main(): the window of heights in flight ----
  plTip,       \* height of the chain tip
  plCurrent,   \* main's current
  plInflight,  \* keys of the inflight Map
  plKeys,      \* commitInOrder: the keys still to commit
  plPc,        \* "status": top of the while loop, "commit": in commitInOrder
  plRun,       \* per height: "none", "running", "settled", "committed"
  \* ---- one swap / liquidity task and the tokens row of its base token ----
  ctEvent,     \* the event: its action, the pool's is_uzig_quote, reserves present
  ctExp,       \* tokens.exponent of the pool's base token
  ctRefreshed, \* a metadata refresh of the base token has completed
  ctPc,        \* position of the task
  ctOut,       \* what the task has done: trade, state, candle, price
  \* ---- lib/pg_notify.js: pgListen('pair_created', onMessage) in one process ----
  lnProcess,   \* which binary the process runs: "indexer" or "jobs"
  lnCalls,     \* startFasttrackListener() calls made by the process so far
  lnClients,   \* the clients connectAndListen made: connection open, LISTEN active
  lnCur,       \* index of the client `runner`/`client` refer to (0: none yet)
  reconnecting,\* let reconnecting
  lnRec,       \* the reconnect() call in flight: "none", "keepAlive", "event"
  lnKeepAlive, \* keepAlive(): "off", "ping", "reconnect", "ended"
  lnSent,      \* NOTIFY pair_created messages sent so far
  lnHandled,   \* per message the number of onMessage calls it caused
  lnHealthy,   \* per message: sent while the current client was connected and no reconnect ran
  \* ---- jobs/fasttrack-listener.js: one run of the pair_created handler ----
  ftPc,        \* position of the handler: "ctx", "meta", ..., "seed", "done", "caught"
  ftQuote,     \* ctx.quote_denom: "uzig" or "other"
  ftRan,       \* the steps the handler has started
  ftFailed,    \* the steps that failed
  ftLog,       \* the warn() tags written by the handler and the steps it calls
  ftBaseHC,    \* const baseHC
  ftQuoteHC,   \* const quoteHC
  \* ---- jobs/fasttrack-listener.js: seedInitialFromFirstProvide(ctx) for one pool ----
  sdCtx,       \* ctx: quote_denom, base_exp, quote_exp, created_at (minute); dbExp: tokens.exponent
  sdTrades,    \* the trades rows of the pool
  sdLcd,       \* the reserves the pair contract reports over LCD
  sdPc,        \* "query": before the trades query, "lcd": in seedInitialFromLCD, "done"
  sdFirst,     \* const t: the row the trades query returned (NoTrade: none)
  sdPrice,     \* the upsertPrice call made (NoSeed: none)
  sdCandle,    \* the upsertOHLCV1m call made (NoSeed: none)
  \* ---- jobs/holders-refresher.js: one refreshHoldersOnce(token_id, denom) call ----
  hdDenom,     \* the denom: "factory" or "ibc"
  hdLcds,      \* LCDS.length: the LCD endpoints configured
  hdBefore,    \* holders of the token when the call starts: address -> balance_base (Null: no row)
  hdHolders,   \* holders of the token
  hdStats,     \* token_holders_stats of the token: holders_count (Null: no row), bumps of updated_at
  hdPc,        \* "start", "fetch", "backoff", "write", "normalize", "returned", "threw"
  hdI,         \* the for loop's i
  hdSeen,      \* const seen
  hdPage,      \* let page: the body the last fetch returned
  hdStatus,    \* HTTP status of the last response (0: none yet)
  hdReported,  \* per address the balance the sweep last reported for it (Null: not returned)
  hdAllOk,     \* every page fetch so far ended with a 200 answer
  \* ---- lib/rpc.js, lib/lcd.js: one httpJSON(baseList, idxRef, path) call ----
  htLen,       \* baseList.length
  htIdxRef,    \* idxRef
  htAttempt,   \* attempt (kept up to MaxAttempts)
  htBase,      \* (idxRef + attempt) % baseList.length: the endpoint of the current attempt
  htPc,        \* "call", "try", "sleep", "returned", "threw"
  htLast,      \* what the last attempt met
  htSeen,      \* what the attempts met, in order (kept up to MaxAttempts entries)
  \* ---- core/tokens.js: one setTokenMetaFromLCD(denom) call ----
  mtIbc,       \* isIbc: the denom starts with 'ibc/'
  mtBefore,    \* the tokens row when the call starts
  mtRow,       \* the tokens row
  mtPc,        \* "meta": before the first UPDATE, "supply": before the factory query, "done"
  \* ---- jobs/matrix-rollups.js: the rollup loop over trades and pool_matrix ----
  rlNow,       \* now(), in units of 30 minutes
  rlTrades,    \* the trades rows
  rlMatrix,    \* pool_matrix: (pool_id, bucket) -> row (NoMatrixRow: none)
  rlPc,        \* "rolled": once() has just ended, "stale": time or trades moved on since
  \* ---- jobs/holders-refresher.js: pageSem and the sweeps' page fetches ----
  smN,         \* pageSem.n: free permits
  smQ,         \* pageSem.q: the callers whose acquire is pending, oldest first
  smPc,        \* per caller: "idle", "waiting", "holding", "fetching"
  smVia,       \* per caller: how its last acquire returned ("none", "direct", "handoff")
  smResult,    \* per caller: outcome of its last fetch ("none", "ok", "failed")
  smPages,     \* per caller: page fetches ended
  \* ---- core/prices.js: fetchPoolReserves, reservesCache and the inflight map ----
  sfInflight,  \* inflight: pair contract -> the query whose promise is stored (Null: no entry)
  sfCache,     \* reservesCache: pair contract -> reserves held unexpired (Null: none)
  sfQueries,   \* the LCD smart queries started: [contract, status, result]
  sfCallers,   \* per caller: [pc, contract, query, got]
  \* ---- lib/cache.js: one TTLCache ----
  tcMap,       \* this.map: the entries [key, value, exp] in insertion order
  tcNow,       \* Date.now()
  tcLast,      \* the last call: [op, key, ret, dropped] (dropped: entries purged)
  tcEvicted,   \* a get has found an expired entry and deleted it
  \* ---- core/ohlcv.js: one batch flushed at once and item by item ----
  rfItems,     \* the items of the batch, in enqueue order
  rfBatch,     \* ohlcv_1m when the batch is flushed in one flushFn call
  rfSeq,       \* ohlcv_1m when each item is upserted on its own, in order
  rfFlushed,   \* the one flushFn call has been made
  rfDone,      \* items upserted on their own so far
  \* ---- bin/start-indexer.js and processHeight: a pair created at height 1, used at height 2 ----
  ppEvents,    \* per height: the swap / liquidity events of the new pair in its block
  ppPc,        \* per height: "waiting", "rpc", "pools", "core", "settled", "committed"
  ppPoolRow,   \* the pools row of the new pair is written
  ppCached,    \* poolsByContract holds the new pair
  ppTask,      \* per event <<height, index>>: "pending", "enqueued" (insertTrade called), "dropped"
  ppQueue,     \* stateQueue.queue: the items pushed by upsertPoolState
  ppState,     \* pool_state: the reserves stored for the new pair (Null: no row)
  \* ---- the fast-track handler of a new pool next to the indexer's swaps on that pool ----
  srPc,        \* the handler: steps done before seeding, then Seeded, then SeedFlushed
  srProvide,   \* the first provide trade of the pool: [minute, price]
  srPrices,    \* prices.price_in_zig of (base token, pool) (Null: no row)
  srOhlcv,     \* ohlcv_1m
  srSwaps      \* swaps of the pool the indexer has written

bqVars == <<bq, bqPushed, bqWritten, bqLost, bqReported, drainPc, drainSnap>>

driverVars == <<tip, tip0, start, current, tipNow, inflight, keys, mainPc, proc,
                writers, drains, lastHeight, ckptLog, stored, settled, errLog>>

blockVars == <<blk, scanI, poolTasks, tasks, phPc, runList, runNext, active,
               started, finished, poolRows, enqueued>>

candleVars == <<ohlcv, cq, crows, cpushed, cfirst>>

ingestVars == <<itip, iblk, isaved, trades, pool_state, candles, tradesQueue,
                stateQueue, ohlcvQueue, ipc, icur, ij, restarts, passes, firstPass>>

commuteVars == <<cmA, cmB, cmAB, cmBA, cmDoneAB, cmDoneBA>>

stateFlushVars == <<psItems, psBefore, psTable, psSql>>

windowVars == <<plTip, plCurrent, plInflight, plKeys, plPc, plRun>>

coreTaskVars == <<ctEvent, ctExp, ctRefreshed, ctPc, ctOut>>

listenVars == <<lnProcess, lnCalls, lnClients, lnCur, reconnecting, lnRec, lnKeepAlive, lnSent, lnHandled, lnHealthy>>

fasttrackVars == <<ftPc, ftQuote, ftRan, ftFailed, ftLog, ftBaseHC, ftQuoteHC>>

seedVars == <<sdCtx, sdTrades, sdLcd, sdPc, sdFirst, sdPrice, sdCandle>>

holdersVars == <<hdDenom, hdLcds, hdBefore, hdHolders, hdStats, hdPc, hdI, hdSeen, hdPage, hdStatus, hdReported, hdAllOk>>

httpVars == <<htLen, htIdxRef, htAttempt, htBase, htPc, htLast, htSeen>>

metaVars == <<mtIbc, mtBefore, mtRow, mtPc>>

rollupVars == <<rlNow, rlTrades, rlMatrix, rlPc>>

semaphoreVars == <<smN, smQ, smPc, smVia, smResult, smPages>>

flightVars == <<sfInflight, sfCache, sfQueries, sfCallers>>

cacheVars == <<tcMap, tcNow, tcLast, tcEvicted>>

refineVars == <<rfItems, rfBatch, rfSeq, rfFlushed, rfDone>>

pipeVars == <<ppEvents, ppPc, ppPoolRow, ppCached, ppTask, ppQueue, ppState>>

seedRaceVars == <<srPc, srProvide, srPrices, srOhlcv, srSwaps>>

vars == <<bqVars, driverVars, blockVars, candleVars, ingestVars, commuteVars,
          stateFlushVars, windowVars, coreTaskVars,
          listenVars,
          fasttrackVars,
          seedVars,
          holdersVars,
          httpVars,
          metaVars,
          rollupVars,
          semaphoreVars,
          flightVars,
          cacheVars,
          refineVars,
          pipeVars,
          seedRaceVars>>

\* what the actions of one part leave alone
notBatchVars == <<driverVars, blockVars, candleVars, ingestVars, commuteVars,
   stateFlushVars, windowVars,
   coreTaskVars,
   listenVars,
   fasttrackVars,
   seedVars,
   holdersVars,
   httpVars,
   metaVars,
   rollupVars,
   semaphoreVars,
   flightVars,
   cacheVars,
   refineVars,
   pipeVars,
   seedRaceVars>>
notDriverVars == <<bqVars, blockVars, candleVars, ingestVars, commuteVars,
   stateFlushVars, windowVars,
   coreTaskVars,
   listenVars,
   fasttrackVars,
   seedVars,
   holdersVars,
   httpVars,
   metaVars,
   rollupVars,
   semaphoreVars,
   flightVars,
   cacheVars,
   refineVars,
   pipeVars,
   seedRaceVars>>
notBlockVars == <<bqVars, driverVars, candleVars, ingestVars, commuteVars,
   stateFlushVars, windowVars,
   coreTaskVars,
   listenVars,
   fasttrackVars,
   seedVars,
   holdersVars,
   httpVars,
   metaVars,
   rollupVars,
   semaphoreVars,
   flightVars,
   cacheVars,
   refineVars,
   pipeVars,
   seedRaceVars>>
notCandleVars == <<bqVars, driverVars, blockVars, ingestVars, commuteVars,
   stateFlushVars, windowVars,
   coreTaskVars,
   listenVars,
   fasttrackVars,
   seedVars,
   holdersVars,
   httpVars,
   metaVars,
   rollupVars,
   semaphoreVars,
   flightVars,
   cacheVars,
   refineVars,
   pipeVars,
   seedRaceVars>>
notIngestVars == <<bqVars, driverVars, blockVars, candleVars, commuteVars,
   stateFlushVars, windowVars,
   coreTaskVars,
   listenVars,
   fasttrackVars,
   seedVars,
   holdersVars,
   httpVars,
   metaVars,
   rollupVars,
   semaphoreVars,
   flightVars,
   cacheVars,
   refineVars,
   pipeVars,
   seedRaceVars>>
notCommuteVars == <<bqVars, driverVars, blockVars, candleVars, ingestVars,
   stateFlushVars, windowVars,
   coreTaskVars,
   listenVars,
   fasttrackVars,
   seedVars,
   holdersVars,
   httpVars,
   metaVars,
   rollupVars,
   semaphoreVars,
   flightVars,
   cacheVars,
   refineVars,
   pipeVars,
   seedRaceVars>>
notStateFlushVars == <<bqVars, driverVars, blockVars, candleVars, ingestVars,
   commuteVars, windowVars,
   coreTaskVars,
   listenVars,
   fasttrackVars,
   seedVars,
   holdersVars,
   httpVars,
   metaVars,
   rollupVars,
   semaphoreVars,
   flightVars,
   cacheVars,
   refineVars,
   pipeVars,
   seedRaceVars>>
notWindowVars == <<bqVars, driverVars, blockVars, candleVars, ingestVars,
   commuteVars, stateFlushVars,
   coreTaskVars,
   listenVars,
   fasttrackVars,
   seedVars,
   holdersVars,
   httpVars,
   metaVars,
   rollupVars,
   semaphoreVars,
   flightVars,
   cacheVars,
   refineVars,
   pipeVars,
   seedRaceVars>>
notCoreTaskVars == <<bqVars, driverVars, blockVars, candleVars, ingestVars,
   commuteVars, stateFlushVars, windowVars,
   listenVars,
   fasttrackVars,
   seedVars,
   holdersVars,
   httpVars,
   metaVars,
   rollupVars,
   semaphoreVars,
   flightVars,
   cacheVars,
   refineVars,
   pipeVars,
   seedRaceVars>>
notListenVars == <<bqVars, driverVars, blockVars, candleVars, ingestVars,
   commuteVars, stateFlushVars, windowVars, coreTaskVars,
   fasttrackVars,
   seedVars,
   holdersVars,
   httpVars,
   metaVars,
   rollupVars,
   semaphoreVars,
   flightVars,
   cacheVars,
   refineVars,
   pipeVars,
   seedRaceVars>>
notFasttrackVars == <<bqVars, driverVars, blockVars, candleVars, ingestVars,
   commuteVars, stateFlushVars, windowVars, coreTaskVars, listenVars,
   seedVars,
   holdersVars,
   httpVars,
   metaVars,
   rollupVars,
   semaphoreVars,
   flightVars,
   cacheVars,
   refineVars,
   pipeVars,
   seedRaceVars>>
notSeedVars == <<bqVars, driverVars, blockVars, candleVars, ingestVars,
   commuteVars, stateFlushVars, windowVars, coreTaskVars, listenVars,
   fasttrackVars,
   holdersVars,
   httpVars,
   metaVars,
   rollupVars,
   semaphoreVars,
   flightVars,
   cacheVars,
   refineVars,
   pipeVars,
   seedRaceVars>>
notHoldersVars == <<bqVars, driverVars, blockVars, candleVars, ingestVars,
   commuteVars, stateFlushVars, windowVars, coreTaskVars, listenVars,
   fasttrackVars, seedVars,
   httpVars,
   metaVars,
   rollupVars,
   semaphoreVars,
   flightVars,
   cacheVars,
   refineVars,
   pipeVars,
   seedRaceVars>>
notHttpVars == <<bqVars, driverVars, blockVars, candleVars, ingestVars,
   commuteVars, stateFlushVars, windowVars, coreTaskVars, listenVars,
   fasttrackVars, seedVars, holdersVars,
   metaVars,
   rollupVars,
   semaphoreVars,
   flightVars,
   cacheVars,
   refineVars,
   pipeVars,
   seedRaceVars>>
notMetaVars == <<bqVars, driverVars, blockVars, candleVars, ingestVars,
   commuteVars, stateFlushVars, windowVars, coreTaskVars, listenVars,
   fasttrackVars, seedVars, holdersVars, httpVars,
   rollupVars,
   semaphoreVars,
   flightVars,
   cacheVars,
   refineVars,
   pipeVars,
   seedRaceVars>>
notRollupVars == <<bqVars, driverVars, blockVars, candleVars, ingestVars,
   commuteVars, stateFlushVars, windowVars, coreTaskVars, listenVars,
   fasttrackVars, seedVars, holdersVars, httpVars, metaVars,
   semaphoreVars,
   flightVars,
   cacheVars,
   refineVars,
   pipeVars,
   seedRaceVars>>
notSemaphoreVars == <<bqVars, driverVars, blockVars, candleVars, ingestVars,
   commuteVars, stateFlushVars, windowVars, coreTaskVars, listenVars,
   fasttrackVars, seedVars, holdersVars, httpVars, metaVars,
   rollupVars,
   flightVars,
   cacheVars,
   refineVars,
   pipeVars,
   seedRaceVars>>
notFlightVars == <<bqVars, driverVars, blockVars, candleVars, ingestVars,
   commuteVars, stateFlushVars, windowVars, coreTaskVars, listenVars,
   fasttrackVars, seedVars, holdersVars, httpVars, metaVars,
   rollupVars, semaphoreVars,
   cacheVars,
   refineVars,
   pipeVars,
   seedRaceVars>>
notCacheVars == <<bqVars, driverVars, blockVars, candleVars, ingestVars,
   commuteVars, stateFlushVars, windowVars, coreTaskVars, listenVars,
   fasttrackVars, seedVars, holdersVars, httpVars, metaVars,
   rollupVars, semaphoreVars, flightVars,
   refineVars,
   pipeVars,
   seedRaceVars>>
notRefineVars == <<bqVars, driverVars, blockVars, candleVars, ingestVars,
   commuteVars, stateFlushVars, windowVars, coreTaskVars, listenVars,
   fasttrackVars, seedVars, holdersVars, httpVars, metaVars,
   rollupVars, semaphoreVars, flightVars, cacheVars,
   pipeVars,
   seedRaceVars>>
notPipeVars == <<bqVars, driverVars, blockVars, candleVars, ingestVars,
   commuteVars, stateFlushVars, windowVars, coreTaskVars, listenVars,
   fasttrackVars, seedVars, holdersVars, httpVars, metaVars,
   rollupVars, semaphoreVars, flightVars, cacheVars, refineVars,
   seedRaceVars>>
notSeedRaceVars == <<bqVars, driverVars, blockVars, candleVars, ingestVars,
   commuteVars, stateFlushVars, windowVars, coreTaskVars, listenVars,
   fasttrackVars, seedVars, holdersVars, httpVars, metaVars,
   rollupVars, semaphoreVars, flightVars, cacheVars, refineVars,
   pipeVars>>

(***************************************************************************)
(* Bounds of the model.                                                    *)
(***************************************************************************)
\* push() calls made on the stand-alone BatchQueue
MaxPush == 4
\* the maxItems option the queues are constructed with (env-configurable)
maxItems == 2
\* the chain tip when the driver starts, and the highest tip the chain reaches
InitTip == 1
MaxTip == 2
\* PIPELINE_DEPTH (env-configurable, default 3)
PIPELINE_DEPTH == 2
\* upsertOHLCV1m calls, the minutes they fall in and the prices they carry
MaxTicks == 3
MaxMinute == 2
MaxPrice == 2
\* heights of the chain the window of main() moves over
MaxWindowTip == 5
\* items of a candle batch
MaxBatch == 2
\* items of a pool-state batch
MaxStateBatch == 3
\* swap events of a block, the reserves they report, restarts of the process
MaxEvents == 2
MaxReserve == 2
MaxRestarts == 2
\* txs in the block handed to processHeight, and swap/liquidity events per tx
MaxTxs == 2
MaxCorePerTx == 2
\* NOTIFY pair_created messages sent, and clients one pgListen call opens
MaxNotes == 2
MaxClients == 3
\* trades rows of the pool the fast-track listener seeds
MaxSeedTrades == 2
\* holders of a token: balances held and reported, items of one denom_owners page
MaxBalance == 2
MaxPageItems == 1
\* MAX_HOLDER_PAGES_PER_CYCLE (env-configurable, default 30)
MAX_HOLDER_PAGES_PER_CYCLE == 2
\* attempts of one httpJSON call that are told apart, endpoints configured, calls made before
MaxAttempts == 3
MaxEndpoints == 2
MaxIdxRef == 1
\* the rollup: clock ticks of 30 minutes, trades rows stored, raw amount of a swap leg
MaxNow == 3
MaxRollTrades == 2
MaxAmount == 2
\* the page semaphore: concurrent sweeps, page fetches of one sweep
MaxCallers == 3
MaxFetches == 2
\* LCD_PAGE_CONCURRENCY (env-configurable, default 4)
LCD_PAGE_CONCURRENCY == 2
\* the single-flight map: concurrent callers, queries started
MaxFlightCallers == 2
MaxQueries == 3
\* the TTL cache: its max, the keys used, the clock
CacheMax == 2
MaxCacheKeys == 3
MaxCacheNow == 2
\* events of the new pair in one block
MaxPairEvents == 2
\* swaps of the new pool written while its fast-track handler runs
MaxRaceSwaps == 2
\* BLOCK_PROC_CONCURRENCY (env-configurable, default 12)
BLOCK_PROC_CONCURRENCY == 2
\* MAX_PENDING_TASKS (env BLOCK_PROC_MAX_TASKS, default 5000)
MAX_PENDING_TASKS == 2

SeqToSet(s) == {s[i] : i \in 1..Len(s)}

RemoveAt(s, i) == SubSeq(s, 1, i - 1) \o SubSeq(s, i + 1, Len(s))

(***************************************************************************)
(* lib/batch.js: class BatchQueue.                                         *)
(*                                                                         *)
(* timer is "null" (this.timer === null), "armed" (a setTimeout pending)   *)
(* or "fired" (the callback ran: the code never resets this.timer, so the  *)
(* field keeps holding the spent Timeout object, which is truthy).         *)
(* micro counts the microtasks queued by _scheduleImmediate.  running is   *)
(* the sequence of flushFn calls that have not settled; each remembers its *)
(* items and who awaits it ("timer", "size" or "drain").                   *)
(***************************************************************************)
NewBatchQueue ==
  [queue |-> <<>>, timer |-> "null", flushing |-> FALSE, micro |-> 0, running |-> <<>>]

\* a variant of _flush without the single-flight guard
flushUnguarded(q, by) ==
  IF Len(q.queue) = 0 THEN q
  ELSE [q EXCEPT !.flushing = TRUE,
                 !.running = Append(@, [items |-> q.queue, by |-> by]),
                 !.queue = <<>>]

\* _flush() up to the call of flushFn(items)
flush(q, by) ==
  IF q.flushing THEN q
  ELSE IF Len(q.queue) = 0 THEN q
  ELSE [q EXCEPT !.flushing = TRUE,
                 !.running = Append(@, [items |-> q.queue, by |-> by]),
                 !.queue = <<>>]

\* _flush() after flushFn settled: the finally block
settle(q, i) ==
  [q EXCEPT !.running = RemoveAt(@, i), !.flushing = FALSE]

scheduleImmediate(q) ==
  [q EXCEPT !.timer = "null", !.micro = @ + 1]

push(q, item) ==
  LET q1 == [q EXCEPT !.queue = Append(@, item)] IN
  IF Len(q1.queue) >= maxItems THEN scheduleImmediate(q1)
  ELSE IF q1.timer = "null" THEN [q1 EXCEPT !.timer = "armed"]
  ELSE q1

\* the setTimeout callback: () => this._flush().catch(()=>{})
timerFire(q) == flush([q EXCEPT !.timer = "fired"], "timer")

\* the queueMicrotask callback: () => this._flush().catch(()=>{})
microtask(q) == flush([q EXCEPT !.micro = @ - 1], "size")

\* drain() up to its await
drain(q) ==
  LET q1 == [q EXCEPT !.timer = "null"] IN
  IF Len(q1.queue) > 0 THEN flush(q1, "drain") ELSE q1

\* whether drain() called in state q awaits a flushFn call of its own
drainAwaits(q) == Len(q.queue) > 0 /\ ~q.flushing

(***************************************************************************)
(* SpecBatch: one BatchQueue driven by pushes, its timer, its microtasks,  *)
(* the settling of flushFn and a caller of drain().  Timer callbacks, I/O  *)
(* completions and the continuation that calls drain() are macrotasks: the *)
(* event loop runs them only when no microtask is pending.                 *)
(***************************************************************************)
BatchIdle ==
  /\ bq = NewBatchQueue
  /\ bqPushed = 0
  /\ bqWritten = {}
  /\ bqLost = {}
  /\ bqReported = {}
  /\ drainPc = "idle"
  /\ drainSnap = {}

Writers == {"trades", "state", "ohlcv"}

Heights == 1..MaxTip

DriverIdle ==
  /\ tip = 0
  /\ tip0 = 0
  /\ start = 0
  /\ current = 0
  /\ tipNow = 0
  /\ inflight = {}
  /\ keys = <<>>
  /\ mainPc = "off"
  /\ proc = [h \in Heights |-> "none"]
  /\ writers = [w \in Writers |-> NewBatchQueue]
  /\ drains = [w \in Writers |-> "none"]
  /\ lastHeight = 0
  /\ ckptLog = <<>>
  /\ stored = [w \in Writers |-> {}]
  /\ settled = <<>>
  /\ errLog = {}

BlockIdle ==
  /\ blk = <<>>
  /\ scanI = 0
  /\ poolTasks = <<>>
  /\ tasks = <<>>
  /\ phPc = "off"
  /\ runList = <<>>
  /\ runNext = 0
  /\ active = {}
  /\ started = {}
  /\ finished = {}
  /\ poolRows = {}
  /\ enqueued = {}

\* SQL NULL in a numeric column
Null == -1

\* no row under a key of ohlcv_1m
NoRow ==
  [open |-> Null, high |-> Null, low |-> Null, close |-> Null,
   volume_zig |-> Null, trade_count |-> Null, liquidity_zig |-> Null]

CandlePools == {1}

Minutes == 1..MaxMinute

CandleKeys == CandlePools \X Minutes

CandleIdle ==
  /\ ohlcv = [k \in CandleKeys |-> NoRow]
  /\ cq = NewBatchQueue
  /\ crows = <<>>
  /\ cpushed = 0
  /\ cfirst = [k \in CandleKeys |-> Null]

IngestPools == {1, 2}

IngestIdle ==
  /\ itip = 0
  /\ iblk = <<>>
  /\ isaved = 0
  /\ trades = <<>>
  /\ pool_state = [p \in IngestPools |-> Null]
  /\ candles = <<>>
  /\ tradesQueue = <<>>
  /\ stateQueue = <<>>
  /\ ohlcvQueue = <<>>
  /\ ipc = "off"
  /\ icur = 0
  /\ ij = 0
  /\ restarts = 0
  /\ passes = 0
  /\ firstPass = <<>>

CommuteIdle ==
  /\ cmA = <<>>
  /\ cmB = <<>>
  /\ cmAB = <<>>
  /\ cmBA = <<>>
  /\ cmDoneAB = 0
  /\ cmDoneBA = 0

StateFlushIdle ==
  /\ psItems = <<>>
  /\ psBefore = <<>>
  /\ psTable = <<>>
  /\ psSql = <<>>

WindowIdle ==
  /\ plTip = 0
  /\ plCurrent = 0
  /\ plInflight = {}
  /\ plKeys = <<>>
  /\ plPc = "off"
  /\ plRun = <<>>

NothingDone == [trade |-> FALSE, state |-> FALSE, candle |-> FALSE, price |-> FALSE]

CoreTaskIdle ==
  /\ ctEvent = <<>>
  /\ ctExp = 0
  /\ ctRefreshed = FALSE
  /\ ctPc = "off"
  /\ ctOut = NothingDone

ListenIdle ==
  /\ lnProcess = "none"
  /\ lnCalls = 0
  /\ lnClients = <<>>
  /\ lnCur = 0
  /\ reconnecting = FALSE
  /\ lnRec = "none"
  /\ lnKeepAlive = "off"
  /\ lnSent = 0
  /\ lnHandled = <<>>
  /\ lnHealthy = <<>>

FasttrackIdle ==
  /\ ftPc = "off"
  /\ ftQuote = "none"
  /\ ftRan = {}
  /\ ftFailed = {}
  /\ ftLog = {}
  /\ ftBaseHC = 0
  /\ ftQuoteHC = 0

SeedIdle ==
  /\ sdCtx = <<>>
  /\ sdTrades = {}
  /\ sdLcd = <<>>
  /\ sdPc = "off"
  /\ sdFirst = <<>>
  /\ sdPrice = <<>>
  /\ sdCandle = <<>>

HoldersIdle ==
  /\ hdDenom = "none"
  /\ hdLcds = 0
  /\ hdBefore = <<>>
  /\ hdHolders = <<>>
  /\ hdStats = <<>>
  /\ hdPc = "off"
  /\ hdI = 0
  /\ hdSeen = {}
  /\ hdPage = <<>>
  /\ hdStatus = 0
  /\ hdReported = <<>>
  /\ hdAllOk = TRUE

HttpIdle ==
  /\ htLen = 0
  /\ htIdxRef = 0
  /\ htAttempt = 0
  /\ htBase = 0
  /\ htPc = "off"
  /\ htLast = "none"
  /\ htSeen = <<>>

MetaIdle ==
  /\ mtIbc = FALSE
  /\ mtBefore = <<>>
  /\ mtRow = <<>>
  /\ mtPc = "off"

RollupIdle ==
  /\ rlNow = 0
  /\ rlTrades = {}
  /\ rlMatrix = <<>>
  /\ rlPc = "off"

SemaphoreIdle ==
  /\ smN = 0
  /\ smQ = <<>>
  /\ smPc = <<>>
  /\ smVia = <<>>
  /\ smResult = <<>>
  /\ smPages = <<>>

FlightIdle ==
  /\ sfInflight = <<>>
  /\ sfCache = <<>>
  /\ sfQueries = <<>>
  /\ sfCallers = <<>>

CacheIdle ==
  /\ tcMap = <<>>
  /\ tcNow = 0
  /\ tcLast = <<>>
  /\ tcEvicted = FALSE

RefineIdle ==
  /\ rfItems = <<>>
  /\ rfBatch = <<>>
  /\ rfSeq = <<>>
  /\ rfFlushed = FALSE
  /\ rfDone = 0

PipeIdle ==
  /\ ppEvents = <<>>
  /\ ppPc = <<>>
  /\ ppPoolRow = FALSE
  /\ ppCached = FALSE
  /\ ppTask = <<>>
  /\ ppQueue = <<>>
  /\ ppState = <<>>

SeedRaceIdle ==
  /\ srPc = Null
  /\ srProvide = <<>>
  /\ srPrices = Null
  /\ srOhlcv = <<>>
  /\ srSwaps = 0

BatchInit ==
  /\ SeedRaceIdle
  /\ PipeIdle
  /\ RefineIdle
  /\ CacheIdle
  /\ FlightIdle
  /\ SemaphoreIdle
  /\ RollupIdle
  /\ MetaIdle
  /\ HttpIdle
  /\ HoldersIdle
  /\ SeedIdle
  /\ FasttrackIdle
  /\ ListenIdle
  /\ DriverIdle
  /\ CoreTaskIdle
  /\ WindowIdle
  /\ StateFlushIdle
  /\ CommuteIdle
  /\ BlockIdle
  /\ CandleIdle
  /\ IngestIdle
  /\ bq = NewBatchQueue
  /\ bqPushed = 0
  /\ bqWritten = {}
  /\ bqLost = {}
  /\ bqReported = {}
  /\ drainPc = "idle"
  /\ drainSnap = {}

BqPush ==
  /\ bqPushed < MaxPush
  /\ bqPushed' = bqPushed + 1
  /\ bq' = push(bq, bqPushed + 1)
  /\ UNCHANGED <<bqWritten, bqLost, bqReported, drainPc, drainSnap>>
  /\ UNCHANGED notBatchVars

BqTimerFire ==
  /\ bq.timer = "armed"
  /\ bq.micro = 0
  /\ bq' = timerFire(bq)
  /\ UNCHANGED <<bqPushed, bqWritten, bqLost, bqReported, drainPc, drainSnap>>
  /\ UNCHANGED notBatchVars

BqMicrotask ==
  /\ bq.micro > 0
  /\ bq' = microtask(bq)
  /\ UNCHANGED <<bqPushed, bqWritten, bqLost, bqReported, drainPc, drainSnap>>
  /\ UNCHANGED notBatchVars

BqDrainCall ==
  /\ drainPc = "idle"
  /\ bq.micro = 0
  /\ bq' = drain(bq)
  /\ drainSnap' = 1..bqPushed
  /\ drainPc' = IF drainAwaits(bq) THEN "waiting" ELSE "resolved"
  /\ UNCHANGED <<bqPushed, bqWritten, bqLost, bqReported>>
  /\ UNCHANGED notBatchVars

\* flushFn(items) resolves
BqFlushOk ==
  /\ bq.micro = 0
  /\ \E i \in 1..Len(bq.running) :
       /\ bq' = settle(bq, i)
       /\ bqWritten' = bqWritten \cup SeqToSet(bq.running[i].items)
       /\ drainPc' = IF bq.running[i].by = "drain" THEN "resolved" ELSE drainPc
  /\ UNCHANGED <<bqPushed, bqLost, bqReported, drainSnap>>
  /\ UNCHANGED notBatchVars

\* flushFn(items) rejects: drain() rethrows to its caller, the timer and the
\* microtask callbacks end in .catch(()=>{})
BqFlushFail ==
  /\ bq.micro = 0
  /\ \E i \in 1..Len(bq.running) :
       /\ bq' = settle(bq, i)
       /\ bqLost' = bqLost \cup SeqToSet(bq.running[i].items)
       /\ IF bq.running[i].by = "drain"
            THEN /\ drainPc' = "rejected"
                 /\ bqReported' = bqReported \cup SeqToSet(bq.running[i].items)
            ELSE UNCHANGED <<drainPc, bqReported>>
  /\ UNCHANGED <<bqPushed, bqWritten, drainSnap>>
  /\ UNCHANGED notBatchVars

\* the caller of drain() goes on after drain() settled
BqDrainReturn ==
  /\ drainPc \in {"resolved", "rejected"}
  /\ drainPc' = "idle"
  /\ UNCHANGED <<bq, bqPushed, bqWritten, bqLost, bqReported, drainSnap>>
  /\ UNCHANGED notBatchVars

BatchNext ==
  \/ BqPush
  \/ BqTimerFire
  \/ BqMicrotask
  \/ BqDrainCall
  \/ BqFlushOk
  \/ BqFlushFail
  \/ BqDrainReturn

SpecBatch == BatchInit /\ [][BatchNext]_vars

(***************************************************************************)
(* Claims on the BatchQueue (SpecBatch).                                   *)
(***************************************************************************)

\* C4: every pushed item is handed to flushFn once the queue reaches
\* maxItems or at the latest maxWaitMs after the first item of the pending
\* batch was enqueued, even if no further push and no drain() happens.
\* Stated on states: an item waiting in the queue always has something
\* that will flush it without a further push or drain(): an armed timer, a
\* queued microtask flush, or at least a flushFn call still running.
C4_PendingItemHasTrigger ==
  Len(bq.queue) > 0 =>
    \/ bq.timer = "armed"
    \/ bq.micro > 0
    \/ Len(bq.running) > 0

\* C5: when drain() resolves, the queue is empty, no flush is in progress
\* and every item pushed before drain() was called has been passed to a
\* flushFn call that has completed.
C5_DrainResolvesFlushed ==
  [][(drainPc # "resolved" /\ drainPc' = "resolved") =>
        /\ Len(bq'.queue) = 0
        /\ ~bq'.flushing
        /\ drainSnap' \subseteq (bqWritten' \cup bqLost')]_vars

\* C6: when flushFn fails for a batch, the failure and the batch are
\* reported to the user of the queue, whichever trigger started the flush.
C6_FailedBatchReported == bqLost \subseteq bqReported

\* C7: at no time are two flushFn invocations of one queue running.
C7_SingleFlight == Len(bq.running) <= 1

\* C7 witness: a size-triggered flush is running and the timer, armed by a
\* later push, fired meanwhile: its _flush() found flushing set and returned.
C7_Witness ==
  /\ Len(bq.running) = 1
  /\ bq.running[1].by = "size"
  /\ bq.timer = "fired"
  /\ Len(bq.queue) > 0

(***************************************************************************)
(* bin/start-indexer.js: main(), commitInOrder(), drainAll(); core/        *)
(* checkpoint.js; and processHeight(h) as far as the driver sees it: an    *)
(* RPC fetch, then the swap task of the block, which enqueues a Trade and  *)
(* a PoolState item and, after its exponent and LCD lookups, a Candle1m    *)
(* item.  An item is identified by the height that produced it.            *)
(***************************************************************************)
RECURSIVE SortAsc(_)
SortAsc(S) ==
  IF S = {} THEN <<>>
  ELSE LET m == CHOOSE x \in S : \A y \in S : x <= y
       IN <<m>> \o SortAsc(S \ {m})

RECURSIVE SortDesc(_)
SortDesc(S) ==
  IF S = {} THEN <<>>
  ELSE LET m == CHOOSE x \in S : \A y \in S : x >= y
       IN <<m>> \o SortDesc(S \ {m})

\* commitInOrder taking the keys in descending order
sortedKeysDesc(S) == SortDesc(S)

\* Array.from(inflight.keys()).sort((a,b)=>a-b)
sortedKeys(S) == SortAsc(S)

\* readCheckpoint(): rows[0]?.last_height || null (0 stands for null)
readCheckpoint(stored_height) == stored_height

\* main() up to the while loop
DriverInit ==
  /\ SeedRaceIdle
  /\ PipeIdle
  /\ RefineIdle
  /\ CacheIdle
  /\ FlightIdle
  /\ SemaphoreIdle
  /\ RollupIdle
  /\ MetaIdle
  /\ HttpIdle
  /\ HoldersIdle
  /\ SeedIdle
  /\ FasttrackIdle
  /\ ListenIdle
  /\ BatchIdle
  /\ CoreTaskIdle
  /\ WindowIdle
  /\ StateFlushIdle
  /\ CommuteIdle
  /\ BlockIdle
  /\ CandleIdle
  /\ IngestIdle
  /\ tip = InitTip
  /\ tip0 = InitTip
  /\ \E saved \in 0..InitTip :
       /\ lastHeight = saved
       /\ current = IF readCheckpoint(saved) # 0 THEN readCheckpoint(saved) ELSE InitTip
       /\ start = IF readCheckpoint(saved) # 0 THEN readCheckpoint(saved) ELSE InitTip
  /\ tipNow = InitTip
  /\ inflight = {}
  /\ keys = <<>>
  /\ mainPc = "status"
  /\ proc = [h \in Heights |-> "none"]
  /\ writers = [w \in Writers |-> NewBatchQueue]
  /\ drains = [w \in Writers |-> "none"]
  /\ ckptLog = <<>>
  /\ stored = [w \in Writers |-> {}]
  /\ settled = <<>>
  /\ errLog = {}

Running == mainPc \notin {"off", "crashed"}

NoMicrotask == \A w \in Writers : writers[w].micro = 0

\* the chain produces a block
ChainGrow ==
  /\ tip < MaxTip
  /\ tip' = tip + 1
  /\ UNCHANGED <<tip0, start, current, tipNow, inflight, keys, mainPc, proc,
                 writers, drains, lastHeight, ckptLog, stored>>
  /\ UNCHANGED <<settled, errLog>>
  /\ UNCHANGED notDriverVars

\* one round of the while loop up to the first await of commitInOrder:
\* tipNow = unwrapStatus(await getStatus()) ?? tip0, the fill loop, the keys
DStatusFill ==
  /\ mainPc = "status"
  /\ NoMicrotask
  /\ \E t \in {tip, tip0} :
       LET free == PIPELINE_DEPTH - Cardinality(inflight)
           new  == {h \in current..t : h < current + free}
       IN /\ tipNow' = t
          /\ inflight' = inflight \cup new
          /\ current' = current + Cardinality(new)
          /\ proc' = [h \in Heights |-> IF h \in new THEN "rpc" ELSE proc[h]]
          /\ keys' = sortedKeys(inflight \cup new)
          /\ mainPc' = IF inflight \cup new = {} THEN "status" ELSE "await"
  /\ UNCHANGED <<tip, tip0, start, writers, drains, lastHeight, ckptLog, stored>>
  /\ UNCHANGED <<settled, errLog>>
  /\ UNCHANGED notDriverVars

\* commitInOrder awaiting p without the catch: a rejected processHeight(h)
\* rejects commitInOrder and main()
DAwaitRethrow ==
  /\ mainPc = "await"
  /\ NoMicrotask
  /\ proc[Head(keys)] \in {"ok", "failed"}
  /\ inflight' = inflight \ {Head(keys)}
  /\ ckptLog' = IF proc[Head(keys)] = "failed" THEN ckptLog
                 ELSE Append(ckptLog, Head(keys))
  /\ mainPc' = IF proc[Head(keys)] = "failed" THEN "crashed" ELSE "ckpt"
  /\ UNCHANGED <<tip, tip0, start, current, tipNow, keys, proc, writers, drains,
                 lastHeight, stored>>
  /\ UNCHANGED <<settled, errLog>>
  /\ UNCHANGED notDriverVars

\* commitInOrder: await p settled; inflight.delete(h); writeCheckpoint(h) is called
DAwait ==
  /\ mainPc = "await"
  /\ NoMicrotask
  /\ proc[Head(keys)] \in {"ok", "failed"}
  /\ inflight' = inflight \ {Head(keys)}
  /\ ckptLog' = Append(ckptLog, Head(keys))
  /\ mainPc' = "ckpt"
  /\ UNCHANGED <<tip, tip0, start, current, tipNow, keys, proc, writers, drains,
                 lastHeight, stored>>
  /\ UNCHANGED <<settled, errLog>>
  /\ UNCHANGED notDriverVars

\* writeCheckpoint(h): the upsert of index_state commits
DCkptCommit ==
  /\ mainPc = "ckpt"
  /\ lastHeight' = Head(keys)
  /\ mainPc' = "resume"
  /\ UNCHANGED <<tip, tip0, start, current, tipNow, inflight, keys, proc, writers,
                 drains, ckptLog, stored>>
  /\ UNCHANGED <<settled, errLog>>
  /\ UNCHANGED notDriverVars

\* writeCheckpoint(h) rejects: main() rejects, err(e), close(), process.exit(1)
DCkptFail ==
  /\ mainPc = "ckpt"
  /\ mainPc' = "crashed"
  /\ UNCHANGED <<tip, tip0, start, current, tipNow, inflight, keys, proc, writers,
                 drains, lastHeight, ckptLog, stored>>
  /\ UNCHANGED <<settled, errLog>>
  /\ UNCHANGED notDriverVars

\* after await writeCheckpoint(h): processed++, drainAll() calls the three drain()
DResume ==
  /\ mainPc = "resume"
  /\ NoMicrotask
  /\ writers' = [w \in Writers |-> drain(writers[w])]
  /\ drains' = [w \in Writers |->
                  IF drainAwaits(writers[w]) THEN "waiting" ELSE "resolved"]
  /\ mainPc' = "drain"
  /\ UNCHANGED <<tip, tip0, start, current, tipNow, inflight, keys, proc,
                 lastHeight, ckptLog, stored>>
  /\ UNCHANGED <<settled, errLog>>
  /\ UNCHANGED notDriverVars

\* Promise.all of drainAll() resolves: the next key, or the next round
DDrainDone ==
  /\ mainPc = "drain"
  /\ NoMicrotask
  /\ \A w \in Writers : drains[w] = "resolved"
  /\ keys' = Tail(keys)
  /\ drains' = [w \in Writers |-> "none"]
  /\ mainPc' = IF Tail(keys) = <<>> THEN "status" ELSE "await"
  /\ errLog' = IF proc[Head(keys)] = "failed" THEN errLog \cup {Head(keys)} ELSE errLog
  /\ UNCHANGED <<tip, tip0, start, current, tipNow, inflight, proc, writers,
                 lastHeight, ckptLog, stored>>
  /\ UNCHANGED settled
  /\ UNCHANGED notDriverVars

\* Promise.all of drainAll() rejects: main() rejects, err(e), close(), process.exit(1)
DDrainReject ==
  /\ mainPc = "drain"
  /\ NoMicrotask
  /\ \E w \in Writers : drains[w] = "rejected"
  /\ mainPc' = "crashed"
  /\ UNCHANGED <<tip, tip0, start, current, tipNow, inflight, keys, proc, writers,
                 drains, lastHeight, ckptLog, stored>>
  /\ UNCHANGED <<settled, errLog>>
  /\ UNCHANGED notDriverVars

\* processHeight(h): getBlock and getBlockResults answered, the block is scanned
PRpc(h) ==
  /\ Running
  /\ NoMicrotask
  /\ proc[h] = "rpc"
  /\ proc' = [proc EXCEPT ![h] = "swap"]
  /\ UNCHANGED <<tip, tip0, start, current, tipNow, inflight, keys, mainPc, writers,
                 drains, lastHeight, ckptLog, stored>>
  /\ UNCHANGED <<settled, errLog>>
  /\ UNCHANGED notDriverVars

\* the swap task: await insertTrade(...); await upsertPoolState(...)
PTradeState(h) ==
  /\ Running
  /\ proc[h] = "swap"
  /\ writers' = [writers EXCEPT !["trades"] = push(@, h), !["state"] = push(@, h)]
  /\ proc' = [proc EXCEPT ![h] = "price"]
  /\ UNCHANGED <<tip, tip0, start, current, tipNow, inflight, keys, mainPc,
                 drains, lastHeight, ckptLog, stored>>
  /\ UNCHANGED <<settled, errLog>>
  /\ UNCHANGED notDriverVars

\* the swap task: exponent known, reserves fetched: await upsertOHLCV1m(...)
POhlcv(h) ==
  /\ Running
  /\ NoMicrotask
  /\ proc[h] = "price"
  /\ writers' = [writers EXCEPT !["ohlcv"] = push(@, h)]
  /\ proc' = [proc EXCEPT ![h] = "ok"]
  /\ UNCHANGED <<tip, tip0, start, current, tipNow, inflight, keys, mainPc,
                 drains, lastHeight, ckptLog, stored>>
  /\ settled' = Append(settled, h)
  /\ UNCHANGED errLog
  /\ UNCHANGED notDriverVars

\* the swap task: exponent unknown, or the LCD lookup failed (caught, warned)
PSkipOhlcv(h) ==
  /\ Running
  /\ NoMicrotask
  /\ proc[h] = "price"
  /\ proc' = [proc EXCEPT ![h] = "ok"]
  /\ UNCHANGED <<tip, tip0, start, current, tipNow, inflight, keys, mainPc, writers,
                 drains, lastHeight, ckptLog, stored>>
  /\ settled' = Append(settled, h)
  /\ UNCHANGED errLog
  /\ UNCHANGED notDriverVars

\* processHeight(h) throws: the RPC fetch failed, or the pool lookup of the task
PFail(h) ==
  /\ Running
  /\ NoMicrotask
  /\ proc[h] \in {"rpc", "swap"}
  /\ proc' = [proc EXCEPT ![h] = "failed"]
  /\ UNCHANGED <<tip, tip0, start, current, tipNow, inflight, keys, mainPc, writers,
                 drains, lastHeight, ckptLog, stored>>
  /\ settled' = Append(settled, h)
  /\ UNCHANGED errLog
  /\ UNCHANGED notDriverVars

WTimerFire(w) ==
  /\ Running
  /\ NoMicrotask
  /\ writers[w].timer = "armed"
  /\ writers' = [writers EXCEPT ![w] = timerFire(@)]
  /\ UNCHANGED <<tip, tip0, start, current, tipNow, inflight, keys, mainPc, proc,
                 drains, lastHeight, ckptLog, stored>>
  /\ UNCHANGED <<settled, errLog>>
  /\ UNCHANGED notDriverVars

WMicrotask(w) ==
  /\ Running
  /\ writers[w].micro > 0
  /\ writers' = [writers EXCEPT ![w] = microtask(@)]
  /\ UNCHANGED <<tip, tip0, start, current, tipNow, inflight, keys, mainPc, proc,
                 drains, lastHeight, ckptLog, stored>>
  /\ UNCHANGED <<settled, errLog>>
  /\ UNCHANGED notDriverVars

\* the flushFn of writer w resolves: its INSERT committed
WFlushOk(w) ==
  /\ Running
  /\ NoMicrotask
  /\ \E i \in 1..Len(writers[w].running) :
       /\ writers' = [writers EXCEPT ![w] = settle(@, i)]
       /\ stored' = [stored EXCEPT ![w] = @ \cup SeqToSet(writers[w].running[i].items)]
       /\ drains' = IF writers[w].running[i].by = "drain"
                      THEN [drains EXCEPT ![w] = "resolved"] ELSE drains
  /\ UNCHANGED <<tip, tip0, start, current, tipNow, inflight, keys, mainPc, proc,
                 lastHeight, ckptLog>>
  /\ UNCHANGED <<settled, errLog>>
  /\ UNCHANGED notDriverVars

\* the flushFn of writer w rejects
WFlushFail(w) ==
  /\ Running
  /\ NoMicrotask
  /\ \E i \in 1..Len(writers[w].running) :
       /\ writers' = [writers EXCEPT ![w] = settle(@, i)]
       /\ drains' = IF writers[w].running[i].by = "drain"
                      THEN [drains EXCEPT ![w] = "rejected"] ELSE drains
  /\ UNCHANGED <<tip, tip0, start, current, tipNow, inflight, keys, mainPc, proc,
                 lastHeight, ckptLog, stored>>
  /\ UNCHANGED <<settled, errLog>>
  /\ UNCHANGED notDriverVars

DriverNext ==
  \/ ChainGrow
  \/ DStatusFill
  \/ DAwait
  \/ DCkptCommit
  \/ DCkptFail
  \/ DResume
  \/ DDrainDone
  \/ DDrainReject
  \/ \E h \in Heights : PRpc(h)
  \/ \E h \in Heights : PTradeState(h)
  \/ \E h \in Heights : POhlcv(h)
  \/ \E h \in Heights : PSkipOhlcv(h)
  \/ \E h \in Heights : PFail(h)
  \/ \E w \in Writers : WTimerFire(w)
  \/ \E w \in Writers : WMicrotask(w)
  \/ \E w \in Writers : WFlushOk(w)
  \/ \E w \in Writers : WFlushFail(w)

SpecDriver == DriverInit /\ [][DriverNext]_vars

(***************************************************************************)
(* Claims on the driver (SpecDriver).                                      *)
(***************************************************************************)

\* the items writer w holds that no flushFn call has written yet: those in
\* its queue and those of its running flushFn calls
Unflushed(w) ==
  SeqToSet(writers[w].queue) \cup
  UNION {SeqToSet(writers[w].running[i].items) : i \in 1..Len(writers[w].running)}

\* C1: the heights passed to writeCheckpoint in a run are start, start+1,
\* start+2, ... in this order, whatever order the processHeight calls
\* settle in, and the stored last_height never decreases.
C1_CheckpointsInOrder ==
  /\ [](\A i \in 1..Len(ckptLog) : ckptLog[i] = start + i - 1)
  /\ [][lastHeight' >= lastHeight]_vars

\* C1 witness: two heights were checkpointed although the higher one had
\* settled first.
C1_Witness ==
  /\ Len(ckptLog) >= 2
  /\ Len(settled) >= 2
  /\ settled[1] > settled[2]
  /\ lastHeight = ckptLog[2]

\* C2: at the moment last_height = h is stored, the three batch writers
\* have been drained: no item enqueued by processHeight(h) is unflushed.
C2_DrainedBeforeCheckpoint ==
  mainPc = "resume" => \A w \in Writers : Head(keys) \notin Unflushed(w)

\* C15: a processHeight(h) that fails does not stop main: commitInOrder still
\* calls writeCheckpoint(h), passes the error to err() once the drain is
\* done and goes on to the next height; main only ends on a rejected
\* writeCheckpoint or drainAll.
C15_FailedHeightCheckpointed ==
  /\ [][\A h \in Heights :
          (proc[h] # "failed" /\ proc'[h] = "failed") => mainPc' = mainPc]_vars
  /\ [][(mainPc = "await" /\ mainPc' # "await" /\ proc[Head(keys)] = "failed")
          => (mainPc' = "ckpt" /\ ckptLog' = Append(ckptLog, Head(keys)))]_vars
  /\ [][(mainPc = "drain" /\ mainPc' \in {"await", "status"}
           /\ proc[Head(keys)] = "failed")
          => Head(keys) \in errLog']_vars
  /\ [][(mainPc # "crashed" /\ mainPc' = "crashed")
          => (mainPc = "ckpt" \/ (mainPc = "drain" /\ \E w \in Writers : drains[w] = "rejected"))]_vars

\* C17: a hard database failure of a batch flush or of the checkpoint write
\* during the commit of a height neither stops the driver loop nor makes
\* the process exit.
C17_DriverSurvivesDbFailure == mainPc # "crashed"

\* C35: the Trade and PoolState items of every height below the stored
\* last_height whose swap task enqueued them have been written by a flushFn
\* call, so a restart at last_height leaves none of them behind; also when a
\* flush fails or is running while a commit drains.
C35_CheckpointCrashSafe ==
  \A h \in Heights :
    (h < lastHeight /\ proc[h] \in {"price", "ok"})
      => (h \in stored["trades"] /\ h \in stored["state"])

\* a height failed, its checkpoint was written and its error logged, and the
\* checkpoint of the next height is stored
C15_Witness ==
  \E h \in Heights :
    /\ proc[h] = "failed"
    /\ h \in errLog
    /\ h \in SeqToSet(ckptLog)
    /\ lastHeight = h + 1

(***************************************************************************)
(* SpecWindow: the while loop of main() over a chain longer than the       *)
(* pipeline: the fill loop, processHeight(h) settling in any order, and    *)
(* commitInOrder taking the keys one by one (checkpoint and drain in one   *)
(* step, neither failing).                                                 *)
(***************************************************************************)
WindowHeights == 1..MaxWindowTip

\* the fill loop without the test of inflight.size
fillPipelineUnbounded(inf, cur, tipSeen) == cur..tipSeen

\* while (inflight.size < PIPELINE_DEPTH && current <= tipNow) inflight.set(current++, ...)
fillPipeline(inf, cur, tipSeen) ==
  {h \in cur..tipSeen : h < cur + (PIPELINE_DEPTH - Cardinality(inf))}

\* main() up to the while loop: current is the saved checkpoint, or the tip
WindowInit ==
  /\ SeedRaceIdle
  /\ PipeIdle
  /\ RefineIdle
  /\ CacheIdle
  /\ FlightIdle
  /\ SemaphoreIdle
  /\ RollupIdle
  /\ MetaIdle
  /\ HttpIdle
  /\ HoldersIdle
  /\ SeedIdle
  /\ FasttrackIdle
  /\ ListenIdle
  /\ BatchIdle
  /\ CoreTaskIdle
  /\ DriverIdle
  /\ BlockIdle
  /\ CandleIdle
  /\ IngestIdle
  /\ CommuteIdle
  /\ StateFlushIdle
  /\ plTip \in WindowHeights
  /\ plCurrent \in 1..plTip
  /\ plInflight = {}
  /\ plKeys = <<>>
  /\ plPc = "status"
  /\ plRun = [h \in WindowHeights |-> "none"]

\* the chain produces a block
PlGrow ==
  /\ plTip < MaxWindowTip
  /\ plTip' = plTip + 1
  /\ UNCHANGED <<plCurrent, plInflight, plKeys, plPc, plRun>>
  /\ UNCHANGED notWindowVars

\* one round of the while loop up to the first await of commitInOrder
PlFill ==
  /\ plPc = "status"
  /\ LET new == fillPipeline(plInflight, plCurrent, plTip) IN
       /\ plInflight' = plInflight \cup new
       /\ plCurrent' = plCurrent + Cardinality(new)
       /\ plRun' = [h \in WindowHeights |-> IF h \in new THEN "running" ELSE plRun[h]]
       /\ plKeys' = sortedKeys(plInflight \cup new)
       /\ plPc' = IF plInflight \cup new = {} THEN "status" ELSE "commit"
  /\ UNCHANGED plTip
  /\ UNCHANGED notWindowVars

\* processHeight(h) settles
PlSettle(h) ==
  /\ plRun[h] = "running"
  /\ plRun' = [plRun EXCEPT ![h] = "settled"]
  /\ UNCHANGED <<plTip, plCurrent, plInflight, plKeys, plPc>>
  /\ UNCHANGED notWindowVars

\* commitInOrder: the next key has settled; inflight.delete(h),
\* writeCheckpoint(h), drainAll()
PlCommit ==
  /\ plPc = "commit"
  /\ plRun[Head(plKeys)] = "settled"
  /\ plInflight' = plInflight \ {Head(plKeys)}
  /\ plRun' = [plRun EXCEPT ![Head(plKeys)] = "committed"]
  /\ plKeys' = Tail(plKeys)
  /\ plPc' = IF Tail(plKeys) = <<>> THEN "status" ELSE "commit"
  /\ UNCHANGED <<plTip, plCurrent>>
  /\ UNCHANGED notWindowVars

WindowNext ==
  \/ PlGrow
  \/ PlFill
  \/ \E h \in WindowHeights : PlSettle(h)
  \/ PlCommit

SpecWindow == WindowInit /\ [][WindowNext]_vars

\* the heights whose processHeight was started and that are not committed
Uncommitted == {h \in WindowHeights : plRun[h] \in {"running", "settled"}}

\* C18: at every moment at most PIPELINE_DEPTH heights have a processHeight
\* call started and their commit still ahead.
C18_WindowBounded == Cardinality(Uncommitted) <= PIPELINE_DEPTH

\* the window is full while further heights of the chain wait
C18_Witness ==
  /\ Cardinality(Uncommitted) = PIPELINE_DEPTH
  /\ plCurrent <= plTip
  /\ \E h \in WindowHeights : plRun[h] = "committed"

(***************************************************************************)
(* core/block-processor.js: processHeight(h) and runWithConcurrency for    *)
(* one block.  A tx of the block holds at most one create_pair of the      *)
(* factory (with a pool address) and some swap / liquidity events.  A task *)
(* is [kind, tx, k]: the pool task of tx (k = 0) or its k-th core task.    *)
(***************************************************************************)
PoolTask(i) == [kind |-> "pool", tx |-> i, k |-> 0]

CoreTask(i, k) == [kind |-> "core", tx |-> i, k |-> k]

\* the core tasks the scan of tx i pushes, in push order
CoreTasksOf(i) == [k \in 1..blk[i].n |-> CoreTask(i, k)]

Min(a, b) == IF a <= b THEN a ELSE b

\* runWithConcurrency(list, limit): min(limit, list.length) workers each take
\* an index and call its task
RunStart(list, limit) ==
  /\ runList' = list
  /\ runNext' = Min(limit, Len(list)) + 1
  /\ active' = {list[j] : j \in 1..Min(limit, Len(list))}
  /\ started' = started \cup {list[j] : j \in 1..Min(limit, Len(list))}

RunIdle == active = {} /\ runNext > Len(runList)

\* what follows the scan loop: phase 1 if there are pool tasks, else on to the prefetch
AfterScan(pts) ==
  IF Len(pts) > 0
    THEN /\ phPc' = "pools"
         /\ RunStart(pts, BLOCK_PROC_CONCURRENCY)
    ELSE /\ phPc' = "prefetch"
         /\ UNCHANGED <<runList, runNext, active, started>>

BlockInit ==
  /\ SeedRaceIdle
  /\ PipeIdle
  /\ RefineIdle
  /\ CacheIdle
  /\ FlightIdle
  /\ SemaphoreIdle
  /\ RollupIdle
  /\ MetaIdle
  /\ HttpIdle
  /\ HoldersIdle
  /\ SeedIdle
  /\ FasttrackIdle
  /\ ListenIdle
  /\ BatchIdle
  /\ CoreTaskIdle
  /\ WindowIdle
  /\ StateFlushIdle
  /\ CommuteIdle
  /\ DriverIdle
  /\ CandleIdle
  /\ IngestIdle
  /\ blk \in [1..MaxTxs -> [cp : BOOLEAN, n : 0..MaxCorePerTx]]
  /\ scanI = 1
  /\ poolTasks = <<>>
  /\ tasks = <<>>
  /\ phPc = "scan"
  /\ runList = <<>>
  /\ runNext = 1
  /\ active = {}
  /\ started = {}
  /\ finished = {}
  /\ poolRows = {}
  /\ enqueued = {}

\* one round of the scan loop: the tx's create_pair, swaps and liquidity
\* events are turned into tasks; at MAX_PENDING_TASKS the pending core tasks
\* are run at once
ScanTx ==
  /\ phPc = "scan"
  /\ scanI <= Len(blk)
  /\ LET pts == IF blk[scanI].cp THEN Append(poolTasks, PoolTask(scanI)) ELSE poolTasks
         ts  == tasks \o CoreTasksOf(scanI)
     IN /\ poolTasks' = pts
        /\ scanI' = scanI + 1
        /\ IF Len(ts) >= MAX_PENDING_TASKS
             THEN /\ tasks' = <<>>
                  /\ phPc' = "interim"
                  /\ RunStart(ts, BLOCK_PROC_CONCURRENCY)
             ELSE /\ tasks' = ts
                  /\ phPc' = "scan"
                  /\ UNCHANGED <<runList, runNext, active, started>>
  /\ UNCHANGED <<blk, finished>>
  /\ UNCHANGED <<poolRows, enqueued>>
  /\ UNCHANGED notBlockVars

\* the scan loop ends
ScanEnd ==
  /\ phPc = "scan"
  /\ scanI > Len(blk)
  /\ AfterScan(poolTasks)
  /\ UNCHANGED <<blk, scanI, poolTasks, tasks, finished>>
  /\ UNCHANGED <<poolRows, enqueued>>
  /\ UNCHANGED notBlockVars

\* getPoolCached finding a row whether or not the pool exists
getPoolCachedAny(t) == TRUE

\* getPoolCached(pairContract): the cache holds rows read from pools, and
\* poolWithTokens reads pools; the pair of a tx with create_pair is the pool
\* that tx creates, any other pair exists already
getPoolCached(t) == blk[t.tx].cp => t.tx \in poolRows

\* a task resolves; its worker takes the next index, if any.  A pool task
\* has upserted its pool; a swap / liquidity task has called insertTrade
\* unless getPoolCached gave no pool
TaskDone(t) ==
  /\ t \in active
  /\ finished' = finished \cup {t}
  /\ poolRows' = IF t.kind = "pool" THEN poolRows \cup {t.tx} ELSE poolRows
  /\ enqueued' = IF t.kind = "core" /\ getPoolCached(t)
                   THEN enqueued \cup {t} ELSE enqueued
  /\ IF runNext <= Len(runList)
       THEN /\ active' = (active \ {t}) \cup {runList[runNext]}
            /\ started' = started \cup {runList[runNext]}
            /\ runNext' = runNext + 1
       ELSE /\ active' = active \ {t}
            /\ UNCHANGED <<started, runNext>>
  /\ UNCHANGED <<blk, scanI, poolTasks, tasks, phPc, runList>>
  /\ UNCHANGED notBlockVars

\* a task rejects: its worker ends, Promise.all rejects and processHeight
\* throws; the other workers go on
TaskFail(t) ==
  /\ t \in active
  /\ finished' = finished \cup {t}
  /\ active' = active \ {t}
  /\ phPc' = "failed"
  /\ UNCHANGED <<blk, scanI, poolTasks, tasks, runList, runNext, started>>
  /\ UNCHANGED <<poolRows, enqueued>>
  /\ UNCHANGED notBlockVars

\* the interim run resolved: the scan loop goes on
InterimEnd ==
  /\ phPc = "interim"
  /\ RunIdle
  /\ phPc' = "scan"
  /\ UNCHANGED <<blk, scanI, poolTasks, tasks, runList, runNext, active, started, finished>>
  /\ UNCHANGED <<poolRows, enqueued>>
  /\ UNCHANGED notBlockVars

\* phase 1 resolved
PoolsEnd ==
  /\ phPc = "pools"
  /\ RunIdle
  /\ phPc' = "prefetch"
  /\ UNCHANGED <<blk, scanI, poolTasks, tasks, runList, runNext, active, started, finished>>
  /\ UNCHANGED <<poolRows, enqueued>>
  /\ UNCHANGED notBlockVars

\* the prefetch resolved: phase 2 runs what is left in tasks
PrefetchEnd ==
  /\ phPc = "prefetch"
  /\ IF Len(tasks) > 0
       THEN /\ phPc' = "core"
            /\ RunStart(tasks, BLOCK_PROC_CONCURRENCY)
       ELSE /\ phPc' = "lowprio"
            /\ UNCHANGED <<runList, runNext, active, started>>
  /\ UNCHANGED <<blk, scanI, poolTasks, tasks, finished>>
  /\ UNCHANGED <<poolRows, enqueued>>
  /\ UNCHANGED notBlockVars

\* phase 2 resolved
CoreEnd ==
  /\ phPc = "core"
  /\ RunIdle
  /\ phPc' = "lowprio"
  /\ UNCHANGED <<blk, scanI, poolTasks, tasks, runList, runNext, active, started, finished>>
  /\ UNCHANGED <<poolRows, enqueued>>
  /\ UNCHANGED notBlockVars

\* the metadata tasks resolved: processHeight returns
LowPrioEnd ==
  /\ phPc = "lowprio"
  /\ phPc' = "done"
  /\ UNCHANGED <<blk, scanI, poolTasks, tasks, runList, runNext, active, started, finished>>
  /\ UNCHANGED <<poolRows, enqueued>>
  /\ UNCHANGED notBlockVars

BlockNext ==
  \/ ScanTx
  \/ ScanEnd
  \/ \E t \in active : TaskDone(t)
  \/ \E t \in active : TaskFail(t)
  \/ InterimEnd
  \/ PoolsEnd
  \/ PrefetchEnd
  \/ CoreEnd
  \/ LowPrioEnd

SpecBlock == BlockInit /\ [][BlockNext]_vars

(***************************************************************************)
(* Claims on processHeight (SpecBlock).                                    *)
(***************************************************************************)

\* the pool-creation tasks of the whole block
AllPoolTasks == {PoolTask(i) : i \in {j \in 1..Len(blk) : blk[j].cp}}

\* C3: no swap or liquidity task of the block starts before every
\* pool-creation task of the block has completed, also when the pending
\* core tasks reach MAX_PENDING_TASKS during the scan.
C3_PoolsBeforeCore ==
  (\E t \in started : t.kind = "core") => AllPoolTasks \subseteq finished

\* C19: a Trade is enqueued for a swap or liquidity event only after the
\* Pool row of its pair contract exists; with create_pair and
\* provide_liquidity in one tx the pool upsert is complete before the
\* provide Trade is enqueued.
C19_TradeAfterPool ==
  \A t \in enqueued : blk[t.tx].cp => t.tx \in poolRows

\* a tx creates a pair and holds an event of that pair, and the event's
\* Trade is enqueued
C19_Witness ==
  \E t \in enqueued : blk[t.tx].cp /\ t.tx \in poolRows /\ phPc = "done"

\* the swap / liquidity tasks of the whole block
AllCoreTasks == UNION {SeqToSet(CoreTasksOf(i)) : i \in 1..Len(blk)}

\* C16: when a task of the height fails, the remaining pool-creation and
\* swap / liquidity tasks of the height are still executed: once
\* processHeight has settled and its workers are through, every task of the
\* block has run.
C16_RemainingTasksRun ==
  (phPc \in {"done", "failed"} /\ RunIdle)
    => (AllPoolTasks \cup AllCoreTasks) \subseteq finished


(***************************************************************************)
(* SpecCoreTask: one swap or liquidity task of processHeight, and the      *)
(* tokens row of the pool's base token.  upsertTokenMinimal creates the    *)
(* row with exponent 0; a metadata refresh sets the exponent it decides    *)
(* on.                                                                     *)
(***************************************************************************)
TokenExponents == {0, 6}

CoreTaskInit ==
  /\ SeedRaceIdle
  /\ PipeIdle
  /\ RefineIdle
  /\ CacheIdle
  /\ FlightIdle
  /\ SemaphoreIdle
  /\ RollupIdle
  /\ MetaIdle
  /\ HttpIdle
  /\ HoldersIdle
  /\ SeedIdle
  /\ FasttrackIdle
  /\ ListenIdle
  /\ BatchIdle
  /\ DriverIdle
  /\ BlockIdle
  /\ CandleIdle
  /\ IngestIdle
  /\ CommuteIdle
  /\ StateFlushIdle
  /\ WindowIdle
  /\ ctEvent \in [action : {"swap", "liquidity"}, is_uzig_quote : BOOLEAN,
                  reserves : BOOLEAN, known : BOOLEAN]
  /\ ctRefreshed = FALSE
  /\ ctExp = 0
  /\ ctPc = "pool"
  /\ ctOut = NothingDone

\* setTokenMetaFromLCD(denom) completes for the base token
CtMetaRefresh ==
  /\ ctPc # "off"
  /\ ~ctRefreshed
  /\ ctRefreshed' = TRUE
  /\ ctExp' \in TokenExponents
  /\ UNCHANGED <<ctEvent, ctPc, ctOut>>
  /\ UNCHANGED notCoreTaskVars

\* getPoolCached; insertTrade; upsertPoolState
CtTradeState ==
  /\ ctPc = "pool"
  /\ IF ~ctEvent.known
       THEN /\ ctPc' = "done"
            /\ UNCHANGED ctOut
       ELSE /\ ctOut' = [ctOut EXCEPT !.trade = TRUE, !.state = ctEvent.reserves]
            /\ ctPc' = IF ctEvent.is_uzig_quote THEN "exponent" ELSE "done"
  /\ UNCHANGED <<ctEvent, ctExp, ctRefreshed>>
  /\ UNCHANGED notCoreTaskVars

\* SELECT exponent FROM tokens WHERE token_id = pool.base_id;
\* if (baseExp == null) return
CtExponent ==
  /\ ctPc = "exponent"
  /\ ctPc' = IF ctExp = Null THEN "done" ELSE "reserves"
  /\ UNCHANGED <<ctEvent, ctExp, ctRefreshed, ctOut>>
  /\ UNCHANGED notCoreTaskVars

\* fetchPoolReserves and priceFromReserves_UZIGQuote give a valid price: a
\* swap calls upsertOHLCV1m
CtReserves ==
  /\ ctPc = "reserves"
  /\ ctOut' = [ctOut EXCEPT !.candle = (ctEvent.action = "swap")]
  /\ ctPc' = "price"
  /\ UNCHANGED <<ctEvent, ctExp, ctRefreshed>>
  /\ UNCHANGED notCoreTaskVars

\* the LCD lookup throws or the price is not valid: caught and warned
CtNoPrice ==
  /\ ctPc = "reserves"
  /\ ctPc' = "done"
  /\ UNCHANGED <<ctEvent, ctExp, ctRefreshed, ctOut>>
  /\ UNCHANGED notCoreTaskVars

\* upsertPrice(pool.base_id, pool.pool_id, price, true)
CtPrice ==
  /\ ctPc = "price"
  /\ ctOut' = [ctOut EXCEPT !.price = TRUE]
  /\ ctPc' = "done"
  /\ UNCHANGED <<ctEvent, ctExp, ctRefreshed>>
  /\ UNCHANGED notCoreTaskVars

CoreTaskNext ==
  \/ CtMetaRefresh
  \/ CtTradeState
  \/ CtExponent
  \/ CtReserves
  \/ CtNoPrice
  \/ CtPrice

SpecCoreTask == CoreTaskInit /\ [][CoreTaskNext]_vars

\* C20: for a swap or liquidity event on a native-quoted pool whose base
\* token has only its first-sighting stub (no metadata refresh completed),
\* the task enqueues the Trade and the PoolState update but upserts no Price
\* and enqueues no Candle1m item.
C20_NoPriceBeforeMeta ==
  (ctEvent.is_uzig_quote /\ ~ctRefreshed) => (~ctOut.candle /\ ~ctOut.price)

(***************************************************************************)
(* core/ohlcv.js: aggregateBatch, fetchPrevCloses, buildInsertSQL and the  *)
(* flushFn of ohlcvQueue.  Prices and volumes are integers of the table's  *)
(* smallest unit.                                                           *)
(***************************************************************************)
keyOf(pool_id, bucket_start) == <<pool_id, bucket_start>>

Max(a, b) == IF a >= b THEN a ELSE b

RECURSIVE aggregateFrom(_, _)
aggregateFrom(items, acc) ==
  IF items = <<>> THEN acc
  ELSE LET it  == Head(items)
           k   == keyOf(it.pool_id, it.bucket_start)
           idx == {j \in 1..Len(acc) : keyOf(acc[j].pool_id, acc[j].bucket_start) = k}
       IN IF idx = {}
            THEN aggregateFrom(Tail(items),
                   Append(acc, [pool_id |-> it.pool_id,
                                bucket_start |-> it.bucket_start,
                                high |-> it.price,
                                low |-> it.price,
                                close |-> it.price,
                                volume_zig |-> it.vol_zig,
                                trade_count |-> it.trade_inc,
                                liquidity_zig |-> it.liquidity_zig]))
            ELSE LET j == CHOOSE j \in idx : TRUE
                 IN aggregateFrom(Tail(items),
                      [acc EXCEPT ![j] =
                         [@ EXCEPT !.high = Max(@, it.price),
                                   !.low = Min(@, it.price),
                                   !.close = it.price,
                                   !.volume_zig = @ + it.vol_zig,
                                   !.trade_count = @ + it.trade_inc,
                                   !.liquidity_zig =
                                      IF it.liquidity_zig # Null
                                        THEN it.liquidity_zig ELSE @]])

\* one row per (pool_id, bucket_start), in the order the keys first occur
aggregateBatch(items) == aggregateFrom(items, <<>>)

\* the LEFT JOIN on bucket_start - 1 minute: the previous minute's close, or Null
fetchPrevCloses(tbl, r) ==
  LET pk == keyOf(r.pool_id, r.bucket_start - 1)
  IN IF pk \in DOMAIN tbl /\ tbl[pk] # NoRow THEN tbl[pk].close ELSE Null

\* flushFn step 3: openVal = prevClose ?? r.close
openOf(tbl, r) ==
  IF fetchPrevCloses(tbl, r) # Null THEN fetchPrevCloses(tbl, r) ELSE r.close

rowsWithOpens(tbl, agg) ==
  [j \in 1..Len(agg) |->
     [pool_id |-> agg[j].pool_id, bucket_start |-> agg[j].bucket_start,
      open |-> openOf(tbl, agg[j]),
      high |-> agg[j].high, low |-> agg[j].low, close |-> agg[j].close,
      volume_zig |-> agg[j].volume_zig, trade_count |-> agg[j].trade_count,
      liquidity_zig |-> agg[j].liquidity_zig]]

\* the same with high = EXCLUDED.high in place of GREATEST
upsertCandleOverwrite(tbl, r) ==
  LET k == keyOf(r.pool_id, r.bucket_start) IN
  IF tbl[k] = NoRow
    THEN [tbl EXCEPT ![k] =
            [open |-> r.open, high |-> r.high, low |-> r.low, close |-> r.close,
             volume_zig |-> r.volume_zig, trade_count |-> r.trade_count,
             liquidity_zig |-> r.liquidity_zig]]
    ELSE [tbl EXCEPT ![k] =
            [@ EXCEPT !.high = r.high,
                      !.low = Min(@, r.low),
                      !.close = r.close,
                      !.volume_zig = @ + r.volume_zig,
                      !.trade_count = @ + r.trade_count]]

\* INSERT ... ON CONFLICT (pool_id, bucket_start) DO UPDATE for one row
upsertCandle(tbl, r) ==
  LET k == keyOf(r.pool_id, r.bucket_start) IN
  IF tbl[k] = NoRow
    THEN [tbl EXCEPT ![k] =
            [open |-> r.open, high |-> r.high, low |-> r.low, close |-> r.close,
             volume_zig |-> r.volume_zig, trade_count |-> r.trade_count,
             liquidity_zig |-> r.liquidity_zig]]
    ELSE [tbl EXCEPT ![k] =
            [@ EXCEPT !.high = Max(@, r.high),
                      !.low = Min(@, r.low),
                      !.close = r.close,
                      !.volume_zig = @ + r.volume_zig,
                      !.trade_count = @ + r.trade_count,
                      !.liquidity_zig =
                         IF r.liquidity_zig # Null THEN r.liquidity_zig ELSE @]]

RECURSIVE insertCandles(_, _)
insertCandles(tbl, rows) ==
  IF rows = <<>> THEN tbl
  ELSE insertCandles(upsertCandle(tbl, Head(rows)), Tail(rows))

(***************************************************************************)
(* SpecCandle: upsertOHLCV1m calls with any minute and price, in any       *)
(* order (pipelined heights enqueue independently), the triggers of the    *)
(* ohlcvQueue, and its flushFn in two steps: the read of the previous      *)
(* closes when the flush starts, the INSERT when it ends.                  *)
(***************************************************************************)
CandleInit ==
  /\ SeedRaceIdle
  /\ PipeIdle
  /\ RefineIdle
  /\ CacheIdle
  /\ FlightIdle
  /\ SemaphoreIdle
  /\ RollupIdle
  /\ MetaIdle
  /\ HttpIdle
  /\ HoldersIdle
  /\ SeedIdle
  /\ FasttrackIdle
  /\ ListenIdle
  /\ BatchIdle
  /\ CoreTaskIdle
  /\ WindowIdle
  /\ StateFlushIdle
  /\ CommuteIdle
  /\ DriverIdle
  /\ BlockIdle
  /\ IngestIdle
  /\ ohlcv = [k \in CandleKeys |-> NoRow]
  /\ cq = NewBatchQueue
  /\ crows = <<>>
  /\ cpushed = 0
  /\ cfirst = [k \in CandleKeys |-> Null]

\* what a trigger does to the queue; a flush that starts reads the previous closes
CandleTrigger(q1) ==
  /\ cq' = q1
  /\ crows' = IF Len(q1.running) > Len(cq.running)
                THEN rowsWithOpens(ohlcv, aggregateBatch(q1.running[Len(q1.running)].items))
                ELSE crows

\* upsertOHLCV1m({pool_id, bucket_start, price, vol_zig, trade_inc: 1})
CPush ==
  /\ cpushed < MaxTicks
  /\ cpushed' = cpushed + 1
  /\ \E p \in CandlePools, m \in Minutes, x \in 1..MaxPrice :
       /\ cq' = push(cq, [pool_id |-> p, bucket_start |-> m, price |-> x,
                          vol_zig |-> 1, trade_inc |-> 1, liquidity_zig |-> Null])
       /\ cfirst' = IF cfirst[keyOf(p, m)] = Null
                      THEN [cfirst EXCEPT ![keyOf(p, m)] = x] ELSE cfirst
  /\ UNCHANGED <<ohlcv, crows>>
  /\ UNCHANGED notCandleVars

CTimerFire ==
  /\ cq.timer = "armed"
  /\ cq.micro = 0
  /\ CandleTrigger(timerFire(cq))
  /\ UNCHANGED <<ohlcv, cpushed, cfirst>>
  /\ UNCHANGED notCandleVars

CMicrotask ==
  /\ cq.micro > 0
  /\ CandleTrigger(microtask(cq))
  /\ UNCHANGED <<ohlcv, cpushed, cfirst>>
  /\ UNCHANGED notCandleVars

\* drainOHLCV()
CDrain ==
  /\ cq.micro = 0
  /\ Len(cq.queue) > 0
  /\ CandleTrigger(drain(cq))
  /\ UNCHANGED <<ohlcv, cpushed, cfirst>>
  /\ UNCHANGED notCandleVars

\* flushFn step 4: the INSERT commits and flushFn resolves
CFlushWrite ==
  /\ cq.micro = 0
  /\ Len(cq.running) > 0
  /\ ohlcv' = insertCandles(ohlcv, crows)
  /\ cq' = settle(cq, 1)
  /\ crows' = <<>>
  /\ UNCHANGED <<cpushed, cfirst>>
  /\ UNCHANGED notCandleVars

\* a query of flushFn fails after its retries: flushFn rejects
CFlushFail ==
  /\ cq.micro = 0
  /\ Len(cq.running) > 0
  /\ cq' = settle(cq, 1)
  /\ crows' = <<>>
  /\ UNCHANGED <<ohlcv, cpushed, cfirst>>
  /\ UNCHANGED notCandleVars

CandleNext ==
  \/ CPush
  \/ CTimerFire
  \/ CMicrotask
  \/ CDrain
  \/ CFlushWrite
  \/ CFlushFail

SpecCandle == CandleInit /\ [][CandleNext]_vars

(***************************************************************************)
(* Claims on the candle writer (SpecCandle).                               *)
(***************************************************************************)

\* nothing is queued and no flush is running
CandleQuiet == Len(cq.queue) = 0 /\ Len(cq.running) = 0

\* C10: for two consecutive minutes m, m+1 of a pool that both received a
\* candle item, once all batches touching them are flushed the stored rows
\* satisfy open(m+1) = close(m).
C10_OpenIsPrevClose ==
  CandleQuiet =>
    \A k \in CandleKeys :
      LET n == keyOf(k[1], k[2] + 1) IN
      (n \in CandleKeys /\ ohlcv[k] # NoRow /\ ohlcv[n] # NoRow)
        => ohlcv[n].open = ohlcv[k].close

\* C11: every stored Candle1m row satisfies low <= open <= high,
\* low <= close <= high, volume >= 0 and trade_count >= 0, also when its
\* open is the previous minute's close.
C11_RowWithinBounds ==
  \A k \in CandleKeys :
    ohlcv[k] # NoRow =>
      /\ ohlcv[k].low <= ohlcv[k].open /\ ohlcv[k].open <= ohlcv[k].high
      /\ ohlcv[k].low <= ohlcv[k].close /\ ohlcv[k].close <= ohlcv[k].high
      /\ ohlcv[k].volume_zig >= 0
      /\ ohlcv[k].trade_count >= 0

\* items of the running flush
CandleInFlight == IF Len(cq.running) = 0 THEN 0 ELSE Len(cq.running[1].items)

RECURSIVE SumTradeCount(_)
SumTradeCount(K) ==
  IF K = {} THEN 0
  ELSE LET k == CHOOSE x \in K : TRUE
       IN (IF ohlcv[k] = NoRow THEN 0 ELSE ohlcv[k].trade_count)
            + SumTradeCount(K \ {k})

\* every pushed item is queued, in the running flush, or counted in a row
NoCandleBatchLost ==
  cpushed = Len(cq.queue) + CandleInFlight + SumTradeCount(CandleKeys)

\* C12: a row created for minute m while the pool has no candle for minute
\* m-1 has as its open the first price observed in m (the first item pushed
\* for that pool and minute), however many items the batch holds for m.
C12_OpenIsFirstPrice ==
  NoCandleBatchLost =>
    \A k \in CandleKeys :
      (ohlcv[k] # NoRow /\ fetchPrevCloses(ohlcv, [pool_id |-> k[1], bucket_start |-> k[2]]) = Null)
        => ohlcv[k].open = cfirst[k]

(***************************************************************************)
(* SpecCommute: two batches of items of one (pool_id, bucket_start),       *)
(* handed to the flushFn of ohlcvQueue in both orders over the same table, *)
(* which is empty or holds one row.                                        *)
(***************************************************************************)

\* ohlcvQueue.flushFn(items) over table tbl
flushCandles(tbl, items) ==
  insertCandles(tbl, rowsWithOpens(tbl, aggregateBatch(items)))

CandleItems ==
  [pool_id : CandlePools, bucket_start : Minutes, price : 1..MaxPrice,
   vol_zig : {1}, trade_inc : {1}, liquidity_zig : {Null}]

\* the batches whose items all fall in minute m of pool p
CandleBatchesOn(p, m) ==
  UNION {[1..n -> {it \in CandleItems : it.pool_id = p /\ it.bucket_start = m}] :
           n \in 1..MaxBatch}

KeysOf(items) ==
  {keyOf(items[j].pool_id, items[j].bucket_start) : j \in 1..Len(items)}

EmptyOhlcv == [k \in CandleKeys |-> NoRow]

CommuteInit ==
  /\ SeedRaceIdle
  /\ PipeIdle
  /\ RefineIdle
  /\ CacheIdle
  /\ FlightIdle
  /\ SemaphoreIdle
  /\ RollupIdle
  /\ MetaIdle
  /\ HttpIdle
  /\ HoldersIdle
  /\ SeedIdle
  /\ FasttrackIdle
  /\ ListenIdle
  /\ BatchIdle
  /\ CoreTaskIdle
  /\ WindowIdle
  /\ StateFlushIdle
  /\ DriverIdle
  /\ BlockIdle
  /\ CandleIdle
  /\ IngestIdle
  /\ \E p \in CandlePools, m \in Minutes :
       /\ cmA \in CandleBatchesOn(p, m)
       /\ cmB \in CandleBatchesOn(p, m)
  /\ \E t \in {EmptyOhlcv} \cup {flushCandles(EmptyOhlcv, <<it>>) : it \in CandleItems} :
       /\ cmAB = t
       /\ cmBA = t
  /\ cmDoneAB = 0
  /\ cmDoneBA = 0

\* cmA is flushed first
CmFlushA1 ==
  /\ cmDoneAB = 0
  /\ cmAB' = flushCandles(cmAB, cmA)
  /\ cmDoneAB' = 1
  /\ UNCHANGED <<cmA, cmB, cmBA, cmDoneBA>>
  /\ UNCHANGED notCommuteVars

\* then cmB
CmFlushB2 ==
  /\ cmDoneAB = 1
  /\ cmAB' = flushCandles(cmAB, cmB)
  /\ cmDoneAB' = 2
  /\ UNCHANGED <<cmA, cmB, cmBA, cmDoneBA>>
  /\ UNCHANGED notCommuteVars

\* cmB is flushed first
CmFlushB1 ==
  /\ cmDoneBA = 0
  /\ cmBA' = flushCandles(cmBA, cmB)
  /\ cmDoneBA' = 1
  /\ UNCHANGED <<cmA, cmB, cmAB, cmDoneAB>>
  /\ UNCHANGED notCommuteVars

\* then cmA
CmFlushA2 ==
  /\ cmDoneBA = 1
  /\ cmBA' = flushCandles(cmBA, cmA)
  /\ cmDoneBA' = 2
  /\ UNCHANGED <<cmA, cmB, cmAB, cmDoneAB>>
  /\ UNCHANGED notCommuteVars

CommuteNext ==
  \/ CmFlushA1
  \/ CmFlushB2
  \/ CmFlushB1
  \/ CmFlushA2

SpecCommute == CommuteInit /\ [][CommuteNext]_vars

\* C13: candle upserts commute: two batches that touch the same (pool_id,
\* minute), flushed in either order, leave the same stored row (open, high,
\* low, close, volume, trade_count, liquidity).
C13_UpsertsCommute ==
  (cmDoneAB = 2 /\ cmDoneBA = 2) =>
    \A k \in KeysOf(cmA) \cap KeysOf(cmB) : cmAB[k] = cmBA[k]

\* C13 (amended): the two orders leave the same high, low, volume and
\* trade_count in the row of every (pool_id, minute) both batches touch;
\* open and close are those of the flush order.
C13_AggregatesCommute ==
  (cmDoneAB = 2 /\ cmDoneBA = 2) =>
    \A k \in KeysOf(cmA) \cap KeysOf(cmB) :
      /\ cmAB[k].high = cmBA[k].high
      /\ cmAB[k].low = cmBA[k].low
      /\ cmAB[k].volume_zig = cmBA[k].volume_zig
      /\ cmAB[k].trade_count = cmBA[k].trade_count

\* both orders are flushed and a row both batches touch ends with another
\* close in one order than in the other
C13_Witness ==
  /\ cmDoneAB = 2
  /\ cmDoneBA = 2
  /\ \E k \in KeysOf(cmA) \cap KeysOf(cmB) :
       /\ cmAB[k].close # cmBA[k].close
       /\ cmAB[k].high = cmBA[k].high
       /\ cmAB[k].trade_count >= 2

(***************************************************************************)
(* core/trades.js and core/pool_state.js: the flushFn of tradesQueue and   *)
(* of stateQueue.  A trade's natural key is (created_at, tx_hash, pool_id, *)
(* msg_index): the block's time, the index of the swap in the block, the   *)
(* pool.  The two reserve columns of pool_state are one value.             *)
(***************************************************************************)
naturalKey(t) == <<t.created_at, t.msg_index, t.pool_id>>

\* INSERT INTO trades without the ON CONFLICT clause
insertTradeRowPlain(tbl, t) == [tbl EXCEPT ![naturalKey(t)] = @ + 1]

\* INSERT INTO trades ... ON CONFLICT (created_at, tx_hash, pool_id, msg_index) DO NOTHING
insertTradeRow(tbl, t) ==
  IF tbl[naturalKey(t)] > 0 THEN tbl ELSE [tbl EXCEPT ![naturalKey(t)] = 1]

RECURSIVE insertTrades(_, _)
insertTrades(tbl, items) ==
  IF items = <<>> THEN tbl
  ELSE insertTrades(insertTradeRow(tbl, Head(items)), Tail(items))

\* m.set(it.pool_id, it) for every item: first-occurrence order, last value
RECURSIVE dedupeFrom(_, _)
dedupeFrom(items, m) ==
  IF items = <<>> THEN m
  ELSE LET it  == Head(items)
           idx == {j \in 1..Len(m) : m[j].pool_id = it.pool_id}
       IN dedupeFrom(Tail(items),
            IF idx = {} THEN Append(m, it)
            ELSE [m EXCEPT ![CHOOSE j \in idx : TRUE] = it])

\* a Map that keeps the first item of each pool_id
RECURSIVE dedupeFirstFrom(_, _)
dedupeFirstFrom(items, m) ==
  IF items = <<>> THEN m
  ELSE LET it  == Head(items)
           idx == {j \in 1..Len(m) : m[j].pool_id = it.pool_id}
       IN dedupeFirstFrom(Tail(items), IF idx = {} THEN Append(m, it) ELSE m)

dedupeFirstWins(items) == dedupeFirstFrom(items, <<>>)

dedupeLastWins(items) == dedupeFrom(items, <<>>)

\* INSERT INTO pool_state ... ON CONFLICT (pool_id) DO UPDATE SET reserves = EXCLUDED
RECURSIVE upsertStates(_, _)
upsertStates(tbl, compact) ==
  IF compact = <<>> THEN tbl
  ELSE upsertStates([tbl EXCEPT ![Head(compact).pool_id] = Head(compact).reserve_base_base],
                    Tail(compact))

(***************************************************************************)
(* SpecStateFlush: stateQueue.flushFn on any batch over any pool_state.    *)
(***************************************************************************)
StateItems == [pool_id : IngestPools, reserve_base_base : 1..MaxReserve]

StateBatches == UNION {[1..n -> StateItems] : n \in 1..MaxStateBatch}

StateFlushInit ==
  /\ SeedRaceIdle
  /\ PipeIdle
  /\ RefineIdle
  /\ CacheIdle
  /\ FlightIdle
  /\ SemaphoreIdle
  /\ RollupIdle
  /\ MetaIdle
  /\ HttpIdle
  /\ HoldersIdle
  /\ SeedIdle
  /\ FasttrackIdle
  /\ ListenIdle
  /\ BatchIdle
  /\ CoreTaskIdle
  /\ WindowIdle
  /\ DriverIdle
  /\ BlockIdle
  /\ CandleIdle
  /\ IngestIdle
  /\ CommuteIdle
  /\ psItems \in StateBatches
  /\ psBefore \in [IngestPools -> {Null} \cup (1..MaxReserve)]
  /\ psTable = psBefore
  /\ psSql = <<>>

\* flushFn: compact = dedupeLastWins(items); sqlValues(compact); DB.query
PsFlush ==
  /\ psSql = <<>>
  /\ psSql' = dedupeLastWins(psItems)
  /\ psTable' = upsertStates(psTable, dedupeLastWins(psItems))
  /\ UNCHANGED <<psItems, psBefore>>
  /\ UNCHANGED notStateFlushVars

StateFlushNext == PsFlush

SpecStateFlush == StateFlushInit /\ [][StateFlushNext]_vars

\* positions of the items of pool p in a batch
PositionsOf(items, p) == {j \in 1..Len(items) : items[j].pool_id = p}

LastPosition(J) == CHOOSE j \in J : \A i \in J : i <= j

\* C14: a pool-state flush writes exactly one row per pool_id present in the
\* batch, carrying the reserves of the last item enqueued for that pool; no
\* pool_id occurs twice in the UPSERT statement.
C14_OneRowPerPoolLastWins ==
  psSql # <<>> =>
    /\ \A i, j \in 1..Len(psSql) : i # j => psSql[i].pool_id # psSql[j].pool_id
    /\ {psSql[i].pool_id : i \in 1..Len(psSql)}
         = {psItems[j].pool_id : j \in 1..Len(psItems)}
    /\ \A i \in 1..Len(psSql) :
         psSql[i] = psItems[LastPosition(PositionsOf(psItems, psSql[i].pool_id))]
    /\ \A p \in IngestPools :
         psTable[p] = IF PositionsOf(psItems, p) = {} THEN psBefore[p]
                      ELSE psItems[LastPosition(PositionsOf(psItems, p))].reserve_base_base

\* the flushed batch holds a pool twice with different reserves, and another
\* pool between the two
C14_Witness ==
  /\ psSql # <<>>
  /\ Len(psItems) = 3
  /\ psItems[1].pool_id = psItems[3].pool_id
  /\ psItems[1].pool_id # psItems[2].pool_id
  /\ psItems[1].reserve_base_base # psItems[3].reserve_base_base
  /\ psTable[psItems[1].pool_id] = psItems[3].reserve_base_base

(***************************************************************************)
(* SpecIngest: the indexer process over one block at the chain tip, and    *)
(* the process started again over the same database.  main() resumes at    *)
(* the saved checkpoint, processHeight pushes a trade, a pool state and a  *)
(* candle item per swap, the three queues flush whenever one of their      *)
(* triggers fires, commitInOrder writes the checkpoint and drains.  No     *)
(* query fails here.                                                       *)
(***************************************************************************)
Events == [pool_id : IngestPools, reserve : {Null} \cup (1..MaxReserve)]

Blocks == UNION {[1..n -> Events] : n \in 0..MaxEvents}

TradeKeys == {1} \X (1..MaxEvents) \X IngestPools

IngestInit ==
  /\ SeedRaceIdle
  /\ PipeIdle
  /\ RefineIdle
  /\ CacheIdle
  /\ FlightIdle
  /\ SemaphoreIdle
  /\ RollupIdle
  /\ MetaIdle
  /\ HttpIdle
  /\ HoldersIdle
  /\ SeedIdle
  /\ FasttrackIdle
  /\ ListenIdle
  /\ BatchIdle
  /\ CoreTaskIdle
  /\ WindowIdle
  /\ StateFlushIdle
  /\ CommuteIdle
  /\ DriverIdle
  /\ BlockIdle
  /\ CandleIdle
  /\ itip = 1
  /\ iblk \in Blocks
  /\ isaved = 0
  /\ trades = [k \in TradeKeys |-> 0]
  /\ pool_state = [p \in IngestPools |-> Null]
  /\ candles = [k \in IngestPools \X {1} |-> NoRow]
  /\ tradesQueue = <<>>
  /\ stateQueue = <<>>
  /\ ohlcvQueue = <<>>
  /\ ipc = "scan"
  /\ icur = 1
  /\ ij = 1
  /\ restarts = 0
  /\ passes = 0
  /\ firstPass = [done |-> FALSE, trades |-> [k \in TradeKeys |-> 0],
                  pool_state |-> [p \in IngestPools |-> Null]]

\* upsertPoolState: nothing is queued when the event carries no reserves
upsertPoolState(q, pool_id, reserve) ==
  IF reserve = Null THEN q
  ELSE Append(q, [pool_id |-> pool_id, reserve_base_base |-> reserve])

\* fetchPoolReserves: the LCD answers with the pool's reserves at the tip,
\* those of the last swap of the pool in the block (Null: none reported)
RECURSIVE fetchPoolReserves(_, _)
fetchPoolReserves(p, n) ==
  IF n = 0 THEN Null
  ELSE IF iblk[n].pool_id = p /\ iblk[n].reserve # Null THEN iblk[n].reserve
  ELSE fetchPoolReserves(p, n - 1)

\* one swap task of processHeight(icur): insertTrade, upsertPoolState, and,
\* when the token meta is known and the price from the LCD reserves is valid,
\* upsertOHLCV1m
ISwapTask ==
  /\ ipc = "scan"
  /\ ij <= Len(iblk)
  /\ tradesQueue' = Append(tradesQueue,
                      [created_at |-> icur, msg_index |-> ij,
                       pool_id |-> iblk[ij].pool_id])
  /\ stateQueue' = upsertPoolState(stateQueue, iblk[ij].pool_id, iblk[ij].reserve)
  /\ \E metaReady \in BOOLEAN :
       LET price == fetchPoolReserves(iblk[ij].pool_id, Len(iblk)) IN
       ohlcvQueue' =
         IF metaReady /\ price # Null
           THEN Append(ohlcvQueue,
                  [pool_id |-> iblk[ij].pool_id, bucket_start |-> icur,
                   price |-> price, vol_zig |-> 1, trade_inc |-> 1,
                   liquidity_zig |-> Null])
           ELSE ohlcvQueue
  /\ ij' = ij + 1
  /\ UNCHANGED <<itip, iblk, isaved, trades, pool_state, candles, ipc, icur,
                 restarts, passes, firstPass>>
  /\ UNCHANGED notIngestVars

\* processHeight(icur) resolves; commitInOrder awaits it
IHeightDone ==
  /\ ipc = "scan"
  /\ ij > Len(iblk)
  /\ ipc' = "ckpt"
  /\ UNCHANGED <<itip, iblk, isaved, trades, pool_state, candles, tradesQueue,
                 stateQueue, ohlcvQueue, icur, ij, restarts, passes, firstPass>>
  /\ UNCHANGED notIngestVars

\* commitInOrder: await writeCheckpoint(h)
IWriteCheckpoint ==
  /\ ipc = "ckpt"
  /\ isaved' = icur
  /\ ipc' = "drain"
  /\ UNCHANGED <<itip, iblk, trades, pool_state, candles, tradesQueue,
                 stateQueue, ohlcvQueue, icur, ij, restarts, passes, firstPass>>
  /\ UNCHANGED notIngestVars

\* commitInOrder: await drainAll() resolves, current is past the tip and main sleeps
IDrained ==
  /\ ipc = "drain"
  /\ tradesQueue = <<>> /\ stateQueue = <<>> /\ ohlcvQueue = <<>>
  /\ ipc' = "sleep"
  /\ icur' = icur + 1
  /\ passes' = passes + 1
  /\ firstPass' = IF firstPass.done THEN firstPass
                  ELSE [done |-> TRUE, trades |-> trades, pool_state |-> pool_state]
  /\ UNCHANGED <<itip, iblk, isaved, trades, pool_state, candles, tradesQueue,
                 stateQueue, ohlcvQueue, ij, restarts>>
  /\ UNCHANGED notIngestVars

\* tradesQueue flushes (size, timer or drain) and its INSERT commits
IFlushTrades ==
  /\ tradesQueue # <<>>
  /\ trades' = insertTrades(trades, tradesQueue)
  /\ tradesQueue' = <<>>
  /\ UNCHANGED <<itip, iblk, isaved, pool_state, candles, stateQueue, ohlcvQueue,
                 ipc, icur, ij, restarts, passes, firstPass>>
  /\ UNCHANGED notIngestVars

\* stateQueue flushes and its UPSERT commits
IFlushState ==
  /\ stateQueue # <<>>
  /\ pool_state' = upsertStates(pool_state, dedupeLastWins(stateQueue))
  /\ stateQueue' = <<>>
  /\ UNCHANGED <<itip, iblk, isaved, trades, candles, tradesQueue, ohlcvQueue,
                 ipc, icur, ij, restarts, passes, firstPass>>
  /\ UNCHANGED notIngestVars

\* ohlcvQueue flushes and its INSERT commits
IFlushOhlcv ==
  /\ ohlcvQueue # <<>>
  /\ candles' = insertCandles(candles,
                  rowsWithOpens(candles, aggregateBatch(ohlcvQueue)))
  /\ ohlcvQueue' = <<>>
  /\ UNCHANGED <<itip, iblk, isaved, trades, pool_state, tradesQueue, stateQueue,
                 ipc, icur, ij, restarts, passes, firstPass>>
  /\ UNCHANGED notIngestVars

\* the process ends (what is queued in memory is gone) and is started again:
\* main() reads the checkpoint and resumes at saved ?? tip0
IRestart ==
  /\ restarts < MaxRestarts
  /\ restarts' = restarts + 1
  /\ tradesQueue' = <<>>
  /\ stateQueue' = <<>>
  /\ ohlcvQueue' = <<>>
  /\ icur' = IF readCheckpoint(isaved) # 0 THEN readCheckpoint(isaved) ELSE itip
  /\ ij' = 1
  /\ ipc' = "scan"
  /\ UNCHANGED <<itip, iblk, isaved, trades, pool_state, candles, passes, firstPass>>
  /\ UNCHANGED notIngestVars

IngestNext ==
  \/ ISwapTask
  \/ IHeightDone
  \/ IWriteCheckpoint
  \/ IDrained
  \/ IFlushTrades
  \/ IFlushState
  \/ IFlushOhlcv
  \/ IRestart

SpecIngest == IngestInit /\ [][IngestNext]_vars

(***************************************************************************)
(* Claims on re-processing a height (SpecIngest).                          *)
(***************************************************************************)

SwapsOf(p) == {j \in 1..Len(iblk) : iblk[j].pool_id = p}

\* C9: volume and trade_count of every Candle1m row count each swap once,
\* also when the height is processed again after a restart at the saved
\* checkpoint.
C9_SwapCountedOnce ==
  (ipc = "sleep" /\ passes >= 2 /\ restarts = passes - 1) =>
    \A k \in DOMAIN candles :
      candles[k] # NoRow =>
        /\ candles[k].trade_count <= Cardinality(SwapsOf(k[1]))
        /\ candles[k].volume_zig <= Cardinality(SwapsOf(k[1]))


(***************************************************************************)
(* lib/pg_notify.js: pgListen, as startFasttrackListener calls it.         *)
(*                                                                         *)
(* A client is a database connection with the 'notification' handler of    *)
(* connectAndListen attached and LISTEN issued on its session.             *)
(* runner.release() hands the connection back to the pool: it neither      *)
(* closes the connection nor detaches the handler nor issues UNLISTEN, so  *)
(* a released client that is still connected keeps calling onMessage.      *)
(***************************************************************************)
Processes == {"indexer", "jobs"}

\* the places that call startFasttrackListener() when a process boots
FasttrackCallSites(p) ==
  IF p = "indexer" THEN {"block-processor.js module load"}
  ELSE {"start-jobs.js main"}

NewClient == [open |-> TRUE, listen |-> TRUE]

\* the clients whose 'notification' handler a NOTIFY reaches
Receivers == {i \in 1..Len(lnClients) : lnClients[i].open /\ lnClients[i].listen}

ListenInit ==
  /\ SeedRaceIdle
  /\ PipeIdle
  /\ RefineIdle
  /\ CacheIdle
  /\ FlightIdle
  /\ SemaphoreIdle
  /\ RollupIdle
  /\ MetaIdle
  /\ HttpIdle
  /\ HoldersIdle
  /\ SeedIdle
  /\ FasttrackIdle
  /\ BatchIdle
  /\ DriverIdle
  /\ BlockIdle
  /\ CandleIdle
  /\ IngestIdle
  /\ CommuteIdle
  /\ StateFlushIdle
  /\ WindowIdle
  /\ CoreTaskIdle
  /\ lnProcess \in Processes
  /\ lnCalls = 0
  /\ lnClients = <<>>
  /\ lnCur = 0
  /\ reconnecting = FALSE
  /\ lnRec = "none"
  /\ lnKeepAlive = "off"
  /\ lnSent = 0
  /\ lnHandled = <<>>
  /\ lnHealthy = <<>>

\* startFasttrackListener() -> pgListen: the first connectAndListen resolves,
\* the 'error'/'end' handlers go on this client, keepAlive starts
LnStart ==
  /\ lnCalls < Cardinality(FasttrackCallSites(lnProcess))
  /\ lnCalls' = lnCalls + 1
  /\ lnClients' = Append(lnClients, NewClient)
  /\ lnCur' = Len(lnClients) + 1
  /\ lnKeepAlive' = "ping"
  /\ UNCHANGED <<lnProcess, reconnecting, lnRec, lnSent, lnHandled, lnHealthy>>
  /\ UNCHANGED notListenVars

\* the first connectAndListen rejects: pgListen rejects, nothing listens
LnStartFail ==
  /\ lnCalls < Cardinality(FasttrackCallSites(lnProcess))
  /\ lnCalls' = lnCalls + 1
  /\ UNCHANGED <<lnProcess, lnClients, lnCur, reconnecting, lnRec, lnKeepAlive,
                 lnSent, lnHandled, lnHealthy>>
  /\ UNCHANGED notListenVars

\* a NOTIFY pair_created: every connected listening client runs its handler
LnNotify ==
  /\ lnCalls > 0
  /\ lnSent < MaxNotes
  /\ lnSent' = lnSent + 1
  /\ lnHandled' = Append(lnHandled, Cardinality(Receivers))
  /\ lnHealthy' = Append(lnHealthy, /\ lnCur > 0
                                    /\ lnClients[lnCur].open
                                    /\ ~reconnecting)
  /\ UNCHANGED <<lnProcess, lnCalls, lnClients, lnCur, reconnecting, lnRec, lnKeepAlive>>
  /\ UNCHANGED notListenVars

\* the connection of client i ends; the 'end' handler exists on the first client only
LnConnEnd(i) ==
  /\ lnClients[i].open
  /\ lnClients' = [lnClients EXCEPT ![i].open = FALSE, ![i].listen = FALSE]
  /\ IF i = 1 /\ ~reconnecting
       THEN reconnecting' = TRUE /\ lnRec' = "event"
       ELSE UNCHANGED <<reconnecting, lnRec>>
  /\ UNCHANGED <<lnProcess, lnCalls, lnCur, lnKeepAlive, lnSent, lnHandled, lnHealthy>>
  /\ UNCHANGED notListenVars

\* keepAlive: runner.query('SELECT 1') rejects (the connection is gone, the
\* runner is released, or the query itself fails) and reconnect() is awaited
LnPingFail ==
  /\ lnKeepAlive = "ping"
  /\ ~reconnecting
  /\ reconnecting' = TRUE
  /\ lnRec' = "keepAlive"
  /\ lnKeepAlive' = "reconnect"
  /\ UNCHANGED <<lnProcess, lnCalls, lnClients, lnCur, lnSent, lnHandled, lnHealthy>>
  /\ UNCHANGED notListenVars

\* reconnect(): connectAndListen resolves
LnReconnected ==
  /\ lnRec # "none"
  /\ Len(lnClients) < MaxClients
  /\ lnClients' = Append(lnClients, NewClient)
  /\ lnCur' = Len(lnClients) + 1
  /\ reconnecting' = FALSE
  /\ lnRec' = "none"
  /\ lnKeepAlive' = IF lnKeepAlive = "reconnect" THEN "ping" ELSE lnKeepAlive
  /\ UNCHANGED <<lnProcess, lnCalls, lnSent, lnHandled, lnHealthy>>
  /\ UNCHANGED notListenVars

\* reconnect(): connectAndListen rejects; reconnecting stays true, and a
\* keepAlive that awaited it ends
LnReconnectFail ==
  /\ lnRec # "none"
  /\ lnRec' = "none"
  /\ lnKeepAlive' = IF lnKeepAlive = "reconnect" THEN "ended" ELSE lnKeepAlive
  /\ UNCHANGED <<lnProcess, lnCalls, lnClients, lnCur, reconnecting, lnSent,
                 lnHandled, lnHealthy>>
  /\ UNCHANGED notListenVars

ListenNext ==
  \/ LnStart
  \/ LnStartFail
  \/ LnNotify
  \/ \E i \in 1..Len(lnClients) : LnConnEnd(i)
  \/ LnPingFail
  \/ LnReconnected
  \/ LnReconnectFail

SpecListen == ListenInit /\ [][ListenNext]_vars

\* C21: every pair_created notification sent while the listener's current
\* client is connected and no reconnect is under way runs the handler
\* exactly once, after any number of reconnections.
C21_HandledExactlyOnce ==
  \A n \in 1..lnSent : lnHealthy[n] => lnHandled[n] = 1

\* the client pgListen currently holds is connected and listening
ListenWorking == lnCur > 0 /\ lnClients[lnCur].open /\ lnClients[lnCur].listen

\* the keepAlive loop pings every 10 s, so a ping on a dropped connection
\* fails in time; a connectAndListen in progress settles, and it resolves
\* unless it rejects
SpecListenLive ==
  /\ ListenInit
  /\ [][ListenNext]_vars
  /\ WF_vars(LnPingFail)
  /\ WF_vars(LnReconnected)

\* C34: whenever the connection of the current client has dropped, pgListen
\* later holds a working LISTEN again, also after a reconnection attempt
\* that failed and after a drop of a client obtained by a reconnect (as long
\* as the run has connections left to open).
C34_ListenRestored ==
  [](((lnCur > 0 /\ ~lnClients[lnCur].open) /\ Len(lnClients) < MaxClients)
       => <>(ListenWorking \/ Len(lnClients) = MaxClients))


(***************************************************************************)
(* jobs/fasttrack-listener.js: the handler startFasttrackListener gives to *)
(* pgListen, for one payload.  Every step it calls can fail; a step inside *)
(* Promise.allSettled cannot reject the handler, an awaited call outside   *)
(* one can, and then the outer catch ends the handler.                     *)
(***************************************************************************)
FasttrackSteps == <<"meta", "holders", "count", "retry", "scan", "matrix", "seed">>

\* one step of the handler: it starts the step, which fails or not, ends
\* the handler in the outer catch when the failure escapes, and goes to
\* position `next` otherwise
FtStep(step, fails, escapes, tag, next) ==
  /\ ftRan' = ftRan \cup {step}
  /\ ftFailed' = IF fails THEN ftFailed \cup {step} ELSE ftFailed
  /\ ftLog' = IF fails /\ escapes THEN ftLog \cup {"[fasttrack]"}
              ELSE IF fails /\ tag # "" THEN ftLog \cup {tag}
              ELSE ftLog
  /\ ftPc' = IF fails /\ escapes THEN "caught" ELSE next

FasttrackInit ==
  /\ SeedRaceIdle
  /\ PipeIdle
  /\ RefineIdle
  /\ CacheIdle
  /\ FlightIdle
  /\ SemaphoreIdle
  /\ RollupIdle
  /\ MetaIdle
  /\ HttpIdle
  /\ HoldersIdle
  /\ SeedIdle
  /\ BatchIdle
  /\ DriverIdle
  /\ BlockIdle
  /\ CandleIdle
  /\ IngestIdle
  /\ CommuteIdle
  /\ StateFlushIdle
  /\ WindowIdle
  /\ CoreTaskIdle
  /\ ListenIdle
  /\ ftPc = "ctx"
  /\ ftQuote \in {"uzig", "other"}
  /\ ftRan = {}
  /\ ftFailed = {}
  /\ ftLog = {}
  /\ ftBaseHC = 0
  /\ ftQuoteHC = 0

\* const ctx = await loadPoolContext(payload); if (!ctx) return warn(...)
FtContext ==
  /\ ftPc = "ctx"
  /\ \E r \in {"row", "null", "throws"} :
       /\ ftPc' = CASE r = "row" -> "meta" [] r = "null" -> "noctx" [] OTHER -> "caught"
       /\ ftLog' = CASE r = "row" -> ftLog
                     [] r = "null" -> ftLog \cup {"[fasttrack] no context"}
                     [] OTHER -> ftLog \cup {"[fasttrack]"}
  /\ UNCHANGED <<ftQuote, ftRan, ftFailed, ftBaseHC, ftQuoteHC>>
  /\ UNCHANGED notFasttrackVars

\* 2) Promise.allSettled([refreshMetaOnce(base), refreshMetaOnce(quote)]);
\* refreshMetaOnce catches and logs its own error
FtMeta ==
  /\ ftPc = "meta"
  /\ \E fails \in BOOLEAN : FtStep("meta", fails, FALSE, "[meta/once]", "holders")
  /\ UNCHANGED <<ftQuote, ftBaseHC, ftQuoteHC>>
  /\ UNCHANGED notFasttrackVars

\* 3) Promise.allSettled([refreshHoldersOnce(base), ...]); a rejection of
\* refreshHoldersOnce is dropped by allSettled
FtHolders ==
  /\ ftPc = "holders"
  /\ \E fails \in BOOLEAN : FtStep("holders", fails, FALSE, "", "count")
  /\ UNCHANGED <<ftQuote, ftBaseHC, ftQuoteHC>>
  /\ UNCHANGED notFasttrackVars

\* const baseHC = await holdersCount(base); const quoteHC = uzig ? 0 : await holdersCount(quote)
FtCount ==
  /\ ftPc = "count"
  /\ \E fails \in BOOLEAN, b \in 0..1, q \in 0..1 :
       /\ FtStep("count", fails, TRUE, "", "retry")
       /\ ftBaseHC' = IF fails THEN ftBaseHC ELSE b
       /\ ftQuoteHC' = IF fails \/ ftQuote = "uzig" THEN ftQuoteHC ELSE q
  /\ UNCHANGED ftQuote
  /\ UNCHANGED notFasttrackVars

\* if (baseHC === 0) await refreshHoldersOnce(base); if (quote !== 'uzig' && quoteHC === 0) await ...
FtRetry ==
  /\ ftPc = "retry"
  /\ IF ftBaseHC = 0 \/ (ftQuote # "uzig" /\ ftQuoteHC = 0)
       THEN \E fails \in BOOLEAN : FtStep("retry", fails, TRUE, "", "scan")
       ELSE /\ ftPc' = "scan"
            /\ UNCHANGED <<ftRan, ftFailed, ftLog>>
  /\ UNCHANGED <<ftQuote, ftBaseHC, ftQuoteHC>>
  /\ UNCHANGED notFasttrackVars

\* 4) Promise.allSettled([scanTokenOnce(base), ...])
FtScan ==
  /\ ftPc = "scan"
  /\ \E fails \in BOOLEAN : FtStep("scan", fails, FALSE, "[security/once]", "matrix")
  /\ UNCHANGED <<ftQuote, ftBaseHC, ftQuoteHC>>
  /\ UNCHANGED notFasttrackVars

\* 5) Promise.allSettled([refreshPoolMatrixOnce(pool), refreshTokenMatrixOnce(base), ...])
FtMatrix ==
  /\ ftPc = "matrix"
  /\ \E fails \in BOOLEAN : FtStep("matrix", fails, FALSE, "", "seed")
  /\ UNCHANGED <<ftQuote, ftBaseHC, ftQuoteHC>>
  /\ UNCHANGED notFasttrackVars

\* 6) try { await seedInitialFromFirstProvide(ctx) } catch (e) { warn(...) }
FtSeed ==
  /\ ftPc = "seed"
  /\ \E fails \in BOOLEAN : FtStep("seed", fails, FALSE, "[fasttrack/init-from-provide]", "done")
  /\ UNCHANGED <<ftQuote, ftBaseHC, ftQuoteHC>>
  /\ UNCHANGED notFasttrackVars

FasttrackNext ==
  \/ FtContext
  \/ FtMeta
  \/ FtHolders
  \/ FtCount
  \/ FtRetry
  \/ FtScan
  \/ FtMatrix
  \/ FtSeed

SpecFasttrack == FasttrackInit /\ [][FasttrackNext]_vars

\* C22: once the handler has loaded the pool context, it reaches the price
\* and candle seeding whichever of the earlier steps failed: when it has
\* ended, the seeding step has run.
C22_SeedingAlwaysRuns ==
  (ftPc \in {"done", "caught"} /\ ftRan # {}) => "seed" \in ftRan


(***************************************************************************)
(* jobs/fasttrack-listener.js: seedInitialFromFirstProvide and             *)
(* seedInitialFromLCD for one pool TKN/quote.  A price is the fraction     *)
(* n/d kept as a record; minuteFloor(created_at) of a trade is the minute  *)
(* of its block.                                                           *)
(***************************************************************************)
\* (height, msg_index) of the rows the trades table can hold for the pool
SeedKeys == {<<1, 0>>, <<1, 1>>, <<2, 0>>}

SeedDenomPairs == {<<"TKN", "uzig">>, <<"uzig", "TKN">>, <<"TKN", "other">>}

SeedTradeRows ==
  {t \in [height : {1, 2}, msg_index : {0, 1}, action : {"provide", "swap"},
          d1 : {"TKN", "uzig"}, d2 : {"uzig", "TKN", "other"}, a1 : 0..1, a2 : 0..1,
          minute : {1, 2}] :
     /\ <<t.height, t.msg_index>> \in SeedKeys
     /\ <<t.d1, t.d2>> \in SeedDenomPairs
     /\ t.minute = t.height
     /\ t.action = "swap" => (t.d1 = "TKN" /\ t.d2 = "uzig" /\ t.a1 = 1 /\ t.a2 = 1)}

NoTrade == [height |-> Null, msg_index |-> Null, action |-> "none", d1 |-> "", d2 |-> "",
            a1 |-> Null, a2 |-> Null, minute |-> Null]

NoSeed == [minute |-> Null, n |-> Null, d |-> Null, vol_zig |-> Null, trade_inc |-> Null,
           src |-> "none"]

Pow10(e) == IF e = 0 THEN 1 ELSE 1000000

\* quoteHuman / baseHuman = (Rq / 10^qe) / (Rb / 10^be)
humanPrice(Rb, Rq, be, qe) == [n |-> Rq * Pow10(be), d |-> Rb * Pow10(qe)]

\* ORDER BY height DESC, msg_index DESC LIMIT 1
lastProvide(rows) ==
  LET ps == {t \in rows : t.action = "provide"} IN
  IF ps = {} THEN NoTrade
  ELSE CHOOSE t \in ps : \A u \in ps :
         \/ u.height < t.height
         \/ (u.height = t.height /\ u.msg_index <= t.msg_index)

\* WHERE pool_id = $1 AND action = 'provide' ORDER BY height ASC, msg_index ASC LIMIT 1
firstProvide(rows) ==
  LET ps == {t \in rows : t.action = "provide"} IN
  IF ps = {} THEN NoTrade
  ELSE CHOOSE t \in ps : \A u \in ps :
         \/ t.height < u.height
         \/ (t.height = u.height /\ t.msg_index <= u.msg_index)

\* let baseExp = ctx.base_exp; if (baseExp == null) baseExp = <tokens.exponent>
seedBaseExp(ctx) == IF ctx.base_exp # Null THEN ctx.base_exp ELSE ctx.dbExp

\* const quoteExp = ctx.quote_exp != null ? ctx.quote_exp : 6
seedQuoteExp(ctx) == IF ctx.quote_exp # Null THEN ctx.quote_exp ELSE 6

\* the mapping of reserve_asset1/2 to base and quote: <<RbRaw, RqRaw>>, Null when unmappable
mapReserves(ctx, t) ==
  IF t.d1 = "TKN" /\ t.d2 = ctx.quote_denom THEN <<t.a1, t.a2>>
  ELSE IF t.d2 = "TKN" /\ t.d1 = ctx.quote_denom THEN <<t.a2, t.a1>>
  ELSE <<Null, Null>>

\* the row is there, maps to base/quote and both raw reserves are positive
provideUsable(ctx, t) ==
  /\ t # NoTrade
  /\ mapReserves(ctx, t)[1] # Null
  /\ mapReserves(ctx, t)[1] > 0
  /\ mapReserves(ctx, t)[2] > 0

\* priceFromReserves_UZIGQuote: null (NoSeed) unless both reserves are found and positive
priceFromReserves_UZIGQuote(be, reserves) ==
  IF reserves.rb = Null \/ reserves.rq = Null THEN NoSeed
  ELSE IF ~(reserves.rb > 0) \/ ~(reserves.rq > 0) THEN NoSeed
  ELSE [NoSeed EXCEPT !.n = reserves.rq * Pow10(be), !.d = reserves.rb * Pow10(6)]

SeedInit ==
  /\ SeedRaceIdle
  /\ PipeIdle
  /\ RefineIdle
  /\ CacheIdle
  /\ FlightIdle
  /\ SemaphoreIdle
  /\ RollupIdle
  /\ MetaIdle
  /\ HttpIdle
  /\ HoldersIdle
  /\ BatchIdle
  /\ DriverIdle
  /\ BlockIdle
  /\ CandleIdle
  /\ IngestIdle
  /\ CommuteIdle
  /\ StateFlushIdle
  /\ WindowIdle
  /\ CoreTaskIdle
  /\ ListenIdle
  /\ FasttrackIdle
  /\ sdCtx \in [quote_denom : {"uzig", "other"}, base_exp : {Null, 6}, dbExp : {Null, 0},
                quote_exp : {Null, 0}, created_at : {0}]
  /\ sdCtx.base_exp = 6 => sdCtx.dbExp = 0
  /\ sdTrades = {}
  /\ sdLcd \in [rb : {Null, 0, 1}, rq : {0, 1}]
  /\ sdPc = "query"
  /\ sdFirst = NoTrade
  /\ sdPrice = NoSeed
  /\ sdCandle = NoSeed

\* the indexer's trades flush stores a row of the pool
SdTradeStored ==
  /\ sdPc = "query"
  /\ Cardinality(sdTrades) < MaxSeedTrades
  /\ \E t \in SeedTradeRows :
       /\ \A u \in sdTrades : <<u.height, u.msg_index>> # <<t.height, t.msg_index>>
       /\ sdTrades' = sdTrades \cup {t}
  /\ UNCHANGED <<sdCtx, sdLcd, sdPc, sdFirst, sdPrice, sdCandle>>
  /\ UNCHANGED notSeedVars

\* if (ctx.quote_denom !== 'uzig') return;  ...  if (baseExp == null) return;
SdSkip ==
  /\ sdPc = "query"
  /\ sdCtx.quote_denom # "uzig" \/ seedBaseExp(sdCtx) = Null
  /\ sdPc' = "done"
  /\ UNCHANGED <<sdCtx, sdTrades, sdLcd, sdFirst, sdPrice, sdCandle>>
  /\ UNCHANGED notSeedVars

\* the trades query returns a usable row: upsertPrice and upsertOHLCV1m at its minute
SdFromProvide ==
  /\ sdPc = "query"
  /\ sdCtx.quote_denom = "uzig" /\ seedBaseExp(sdCtx) # Null
  /\ LET t == firstProvide(sdTrades)
         r == mapReserves(sdCtx, t)
         px == humanPrice(r[1], r[2], seedBaseExp(sdCtx), seedQuoteExp(sdCtx)) IN
       /\ provideUsable(sdCtx, t)
       /\ sdFirst' = t
       /\ sdPrice' = [NoSeed EXCEPT !.n = px.n, !.d = px.d, !.src = "provide"]
       /\ sdCandle' = [minute |-> t.minute, n |-> px.n, d |-> px.d, vol_zig |-> 0,
                       trade_inc |-> 0, src |-> "provide"]
  /\ sdPc' = "done"
  /\ UNCHANGED <<sdCtx, sdTrades, sdLcd>>
  /\ UNCHANGED notSeedVars

\* no row, unmappable denoms or a non-positive reserve: await seedInitialFromLCD(ctx, baseExp)
SdFallback ==
  /\ sdPc = "query"
  /\ sdCtx.quote_denom = "uzig" /\ seedBaseExp(sdCtx) # Null
  /\ ~provideUsable(sdCtx, firstProvide(sdTrades))
  /\ sdFirst' = firstProvide(sdTrades)
  /\ sdPc' = "lcd"
  /\ UNCHANGED <<sdCtx, sdTrades, sdLcd, sdPrice, sdCandle>>
  /\ UNCHANGED notSeedVars

\* seedInitialFromLCD: fetchPoolReserves, priceFromReserves_UZIGQuote, seed at ctx.created_at
SdFromLCD ==
  /\ sdPc = "lcd"
  /\ LET px == priceFromReserves_UZIGQuote(seedBaseExp(sdCtx), sdLcd) IN
       IF sdCtx.quote_denom # "uzig" \/ px = NoSeed
         THEN UNCHANGED <<sdPrice, sdCandle>>
         ELSE /\ sdPrice' = [px EXCEPT !.src = "lcd"]
              /\ sdCandle' = [minute |-> sdCtx.created_at, n |-> px.n, d |-> px.d,
                              vol_zig |-> 0, trade_inc |-> 0, src |-> "lcd"]
  /\ sdPc' = "done"
  /\ UNCHANGED <<sdCtx, sdTrades, sdLcd, sdFirst>>
  /\ UNCHANGED notSeedVars

SeedNext ==
  \/ SdTradeStored
  \/ SdSkip
  \/ SdFromProvide
  \/ SdFallback
  \/ SdFromLCD

SpecSeed == SeedInit /\ [][SeedNext]_vars

\* the provide row with the lowest (height, msg_index) among the rows
EarliestProvide(rows) ==
  {t \in rows : /\ t.action = "provide"
                /\ \A u \in rows : u.action = "provide" =>
                     (t.height < u.height \/ (t.height = u.height /\ t.msg_index <= u.msg_index))}

\* C23: when seeding has ended for a native-quoted pool with known base
\* exponent: if the pool's earliest provide trade maps to base/quote with
\* both reserves positive, the price and the candle (zero volume, zero
\* trade count) come from that trade, at that trade's minute; otherwise
\* whatever is seeded comes from the LCD reserves at the pair-creation
\* minute.  For a pool that is not native-quoted nothing is seeded.
C23_SeedFromFirstProvide ==
  sdPc = "done" =>
    /\ sdCtx.quote_denom # "uzig" => (sdPrice = NoSeed /\ sdCandle = NoSeed)
    /\ (sdCtx.quote_denom = "uzig" /\ seedBaseExp(sdCtx) # Null) =>
         /\ \A t \in EarliestProvide(sdTrades) :
              (mapReserves(sdCtx, t)[1] # Null /\ t.a1 > 0 /\ t.a2 > 0) =>
                 /\ sdPrice.src = "provide"
                 /\ sdCandle = [minute |-> t.minute, n |-> sdPrice.n, d |-> sdPrice.d,
                                vol_zig |-> 0, trade_inc |-> 0, src |-> "provide"]
                 /\ sdPrice.n = mapReserves(sdCtx, t)[2] * Pow10(seedBaseExp(sdCtx))
                 /\ sdPrice.d = mapReserves(sdCtx, t)[1] * Pow10(seedQuoteExp(sdCtx))
         /\ (~\E t \in EarliestProvide(sdTrades) :
                (mapReserves(sdCtx, t)[1] # Null /\ t.a1 > 0 /\ t.a2 > 0)) =>
              /\ sdPrice.src \in {"none", "lcd"}
              /\ sdPrice.src = "lcd" <=> (sdLcd.rb # Null /\ sdLcd.rb > 0 /\ sdLcd.rq > 0)
              /\ sdPrice.src = "lcd" =>
                   sdCandle = [minute |-> sdCtx.created_at, n |-> sdPrice.n, d |-> sdPrice.d,
                               vol_zig |-> 0, trade_inc |-> 0, src |-> "lcd"]

\* two provide rows are stored and the seed came from the earlier one, at its minute
C23_Witness ==
  /\ sdPc = "done"
  /\ sdPrice.src = "provide"
  /\ \E u \in sdTrades : u.action = "provide" /\ u # sdFirst /\ u.a1 > 0 /\ u.a2 > 0
  /\ sdCandle.minute = sdFirst.minute
  /\ sdCandle.minute # sdCtx.created_at


(***************************************************************************)
(* jobs/holders-refresher.js: refreshHoldersOnce(token_id, denom), with    *)
(* lcdDenomOwners of lib/lcd.js.  httpJSON answers a 200 or a non-429 4xx  *)
(* response with its JSON body, sleeps and tries again on 429 and 5xx, and *)
(* throws only when no endpoint is configured.                             *)
(***************************************************************************)
HolderAddrs == {"A", "B", "C"}

\* the pages denom_owners can answer: up to MaxPageItems owners, each with
\* balance 0 or MaxBalance, and a next_key or none
OwnerPages ==
  {[items |-> it, next |-> nx] :
     it \in {f \in SUBSET (HolderAddrs \X {0, MaxBalance}) :
               /\ Cardinality(f) <= MaxPageItems
               /\ \A x, y \in f : x[1] = y[1] => x = y},
     nx \in BOOLEAN}

\* the body of an error response: no denom_owners, no pagination
ErrorBody == [items |-> {}, next |-> FALSE]

NoPage == [items |-> {}, next |-> FALSE]

NoStats == [holders_count |-> Null, bumps |-> 0]

\* INSERT INTO holders ... ON CONFLICT (token_id, address) DO UPDATE SET balance_base = EXCLUDED.balance_base
upsertHolders(h, items) ==
  [a \in HolderAddrs |->
     IF \E x \in items : x[1] = a THEN (CHOOSE x \in items : x[1] = a)[2] ELSE h[a]]

\* a final pass that leaves the addresses not seen as they are
normalizeKeepUnseen(h, seen) == h

\* UPDATE holders SET balance_base = '0' WHERE token_id = $1 [AND address NOT IN (seen)]
normalizeHolders(h, seen) ==
  [a \in HolderAddrs |-> IF a \notin seen /\ h[a] # Null THEN 0 ELSE h[a]]

\* SELECT COUNT(*) FROM holders WHERE token_id = $1 AND balance_base::NUMERIC > 0
countHolders(h) == Cardinality({a \in HolderAddrs : h[a] # Null /\ h[a] > 0})

HoldersInit ==
  /\ SeedRaceIdle
  /\ PipeIdle
  /\ RefineIdle
  /\ CacheIdle
  /\ FlightIdle
  /\ SemaphoreIdle
  /\ RollupIdle
  /\ MetaIdle
  /\ HttpIdle
  /\ BatchIdle
  /\ DriverIdle
  /\ BlockIdle
  /\ CandleIdle
  /\ IngestIdle
  /\ CommuteIdle
  /\ StateFlushIdle
  /\ WindowIdle
  /\ CoreTaskIdle
  /\ ListenIdle
  /\ FasttrackIdle
  /\ SeedIdle
  /\ hdDenom \in {"factory", "ibc"}
  /\ hdLcds \in 0..1
  /\ hdBefore \in [HolderAddrs -> {Null} \cup (0..MaxBalance)]
  /\ hdHolders = hdBefore
  /\ hdStats \in {NoStats, [holders_count |-> countHolders(hdBefore), bumps |-> 0]}
  /\ hdPc = "start"
  /\ hdI = 0
  /\ hdSeen = {}
  /\ hdPage = NoPage
  /\ hdStatus = 0
  /\ hdReported = [a \in HolderAddrs |-> Null]
  /\ hdAllOk = TRUE

\* if (isIbcDenom(denom)) { await bumpStatsTimestampOnly(token_id); return; }
\* the INSERT proposes holders_count NULL for a NOT NULL column and is rejected
HdSkipIbc ==
  /\ hdPc = "start"
  /\ hdDenom = "ibc"
  /\ hdPc' = "threw"
  /\ UNCHANGED <<hdDenom, hdLcds, hdBefore, hdHolders, hdStats, hdI, hdSeen, hdPage,
                 hdStatus, hdReported, hdAllOk>>
  /\ UNCHANGED notHoldersVars

\* const seen = new Set(); let nextKey = null; for (let i = 0; ...
HdBegin ==
  /\ hdPc = "start"
  /\ hdDenom # "ibc"
  /\ hdPc' = "fetch"
  /\ UNCHANGED <<hdDenom, hdLcds, hdBefore, hdHolders, hdStats, hdI, hdSeen, hdPage,
                 hdStatus, hdReported, hdAllOk>>
  /\ UNCHANGED notHoldersVars

\* httpJSON with no endpoint configured throws; the message has no '501': warn and break
HdNoEndpoint ==
  /\ hdPc = "fetch"
  /\ hdLcds = 0
  /\ hdPc' = "normalize"
  /\ hdAllOk' = FALSE
  /\ UNCHANGED <<hdDenom, hdLcds, hdBefore, hdHolders, hdStats, hdI, hdSeen, hdPage,
                 hdStatus, hdReported>>
  /\ UNCHANGED notHoldersVars

\* one attempt of httpJSON: 200 answers a page, a 4xx other than 429 answers an
\* error body that is returned like a page, 429 and 5xx go to the backoff sleep
HdRequest ==
  /\ hdPc = "fetch"
  /\ hdLcds > 0
  /\ \E st \in {200, 400, 429, 501} :
       /\ hdStatus' = st
       /\ IF st = 200
            THEN /\ \E pg \in OwnerPages : hdPage' = pg
                 /\ hdPc' = "write"
                 /\ UNCHANGED hdAllOk
            ELSE IF st = 400
            THEN /\ hdPage' = ErrorBody
                 /\ hdPc' = "write"
                 /\ hdAllOk' = FALSE
            ELSE /\ hdPc' = "backoff"
                 /\ UNCHANGED <<hdPage, hdAllOk>>
  /\ UNCHANGED <<hdDenom, hdLcds, hdBefore, hdHolders, hdStats, hdI, hdSeen, hdReported>>
  /\ UNCHANGED notHoldersVars

\* httpJSON: await sleep(backoff), then the next attempt
HdBackoff ==
  /\ hdPc = "backoff"
  /\ hdPc' = "fetch"
  /\ UNCHANGED <<hdDenom, hdLcds, hdBefore, hdHolders, hdStats, hdI, hdSeen, hdPage,
                 hdStatus, hdReported, hdAllOk>>
  /\ UNCHANGED notHoldersVars

\* BEGIN; upsert every item of the page; COMMIT; nextKey; i++
HdWritePage ==
  /\ hdPc = "write"
  /\ hdHolders' = upsertHolders(hdHolders, hdPage.items)
  /\ hdSeen' = hdSeen \cup {x[1] : x \in hdPage.items}
  /\ hdReported' = upsertHolders(hdReported, hdPage.items)
  /\ hdI' = hdI + 1
  /\ hdPc' = IF ~hdPage.next \/ hdI + 1 >= MAX_HOLDER_PAGES_PER_CYCLE
             THEN "normalize" ELSE "fetch"
  /\ UNCHANGED <<hdDenom, hdLcds, hdBefore, hdStats, hdPage, hdStatus, hdAllOk>>
  /\ UNCHANGED notHoldersVars

\* the final pass: zero the addresses not seen, count, upsert the stats, COMMIT
HdNormalize ==
  /\ hdPc = "normalize"
  /\ hdHolders' = normalizeHolders(hdHolders, hdSeen)
  /\ hdStats' = [holders_count |-> countHolders(hdHolders'), bumps |-> hdStats.bumps + 1]
  /\ hdPc' = "returned"
  /\ UNCHANGED <<hdDenom, hdLcds, hdBefore, hdI, hdSeen, hdPage, hdStatus, hdReported,
                 hdAllOk>>
  /\ UNCHANGED notHoldersVars

HoldersNext ==
  \/ HdSkipIbc
  \/ HdBegin
  \/ HdNoEndpoint
  \/ HdRequest
  \/ HdBackoff
  \/ HdWritePage
  \/ HdNormalize

SpecHolders == HoldersInit /\ [][HoldersNext]_vars

C25_On501SweepEnds ==
  [][(hdStatus' = 501 /\ hdPc = "fetch") =>
       /\ hdPc' = "returned"
       /\ hdHolders' = hdHolders
       /\ hdStats' = [hdStats EXCEPT !.bumps = @ + 1]]_vars

\* the sweep ended before the last page: a fetch threw or answered an error
\* body, or the page cap was reached with a next_key still given
SweepEndedEarly ==
  \/ ~hdAllOk
  \/ (hdI >= MAX_HOLDER_PAGES_PER_CYCLE /\ hdPage.next)

\* C39: when refreshHoldersOnce has returned from a sweep that ended early,
\* every address the sweep did not see holds the balance it had before, and
\* holders_count still counts the unseen addresses with a positive balance.
C39_EarlyEndKeepsUnfetched ==
  (hdPc = "returned" /\ SweepEndedEarly) =>
    /\ \A a \in HolderAddrs \ hdSeen : hdHolders[a] = hdBefore[a]
    /\ hdStats.holders_count
         >= Cardinality({a \in HolderAddrs \ hdSeen : hdBefore[a] # Null /\ hdBefore[a] > 0})


(***************************************************************************)
(* lib/rpc.js and lib/lcd.js: httpJSON(baseList, idxRef, path).  The two   *)
(* files hold the same function.  The loop `for (attempt = 0;; attempt++)` *)
(* has no exit but the return inside the try block; attempt is kept up to  *)
(* MaxAttempts here and the endpoint it selects is kept in htBase.         *)
(***************************************************************************)
\* what one attempt can meet: fetch rejecting, or a status with a body
HttpOutcomes ==
  {"200 json", "200 not json", "404 json", "404 not json", "429", "503", "timeout"}

\* if (r.status === 429 || r.status >= 500) throw new Error(`HTTP ${r.status}`)
throwsOnStatus(o) == o \in {"429", "503"}

\* await fetch(...) rejects, the status check throws, or await r.json() rejects
attemptThrows(o) == o = "timeout" \/ throwsOnStatus(o) \/ o \in {"200 not json", "404 not json"}

HttpInit ==
  /\ SeedRaceIdle
  /\ PipeIdle
  /\ RefineIdle
  /\ CacheIdle
  /\ FlightIdle
  /\ SemaphoreIdle
  /\ RollupIdle
  /\ MetaIdle
  /\ BatchIdle
  /\ DriverIdle
  /\ BlockIdle
  /\ CandleIdle
  /\ IngestIdle
  /\ CommuteIdle
  /\ StateFlushIdle
  /\ WindowIdle
  /\ CoreTaskIdle
  /\ ListenIdle
  /\ FasttrackIdle
  /\ SeedIdle
  /\ HoldersIdle
  /\ htLen \in 0..MaxEndpoints
  /\ htIdxRef \in 0..MaxIdxRef
  /\ htAttempt = 0
  /\ htBase = 0
  /\ htPc = "call"
  /\ htLast = "none"
  /\ htSeen = <<>>

\* if (!baseList.length) throw new Error('no ... endpoints configured'); for (let attempt = 0;;
HtCall ==
  /\ htPc = "call"
  /\ IF htLen = 0
       THEN htPc' = "threw" /\ UNCHANGED htBase
       ELSE htPc' = "try" /\ htBase' = htIdxRef % htLen
  /\ UNCHANGED <<htLen, htIdxRef, htAttempt, htLast, htSeen>>
  /\ UNCHANGED notHttpVars

\* the try block of one attempt: return await r.json(), or the catch is entered
HtAttempt ==
  /\ htPc = "try"
  /\ \E o \in HttpOutcomes :
       /\ htLast' = o
       /\ htSeen' = IF Len(htSeen) < MaxAttempts THEN Append(htSeen, o) ELSE htSeen
       /\ htPc' = IF attemptThrows(o) THEN "sleep" ELSE "returned"
  /\ UNCHANGED <<htLen, htIdxRef, htAttempt, htBase>>
  /\ UNCHANGED notHttpVars

\* the catch block: warn, await sleep(backoff); then attempt++ and the next endpoint
HtSleep ==
  /\ htPc = "sleep"
  /\ htPc' = "try"
  /\ htAttempt' = IF htAttempt < MaxAttempts THEN htAttempt + 1 ELSE htAttempt
  /\ htBase' = (htBase + 1) % htLen
  /\ UNCHANGED <<htLen, htIdxRef, htLast, htSeen>>
  /\ UNCHANGED notHttpVars

HttpNext ==
  \/ HtCall
  \/ HtAttempt
  \/ HtSleep

SpecHttp == HttpInit /\ [][HttpNext]_vars

\* the call keeps taking steps: the event loop runs its timers and its I/O
SpecHttpLive == HttpInit /\ [][HttpNext]_vars /\ WF_vars(HttpNext)

\* C26: every chain-client call eventually returns or raises, also when its
\* endpoints keep answering 429/5xx or keep timing out.
C26_CallEnds == <>(htPc \in {"returned", "threw"})

\* C27: an attempt that meets a 4xx status other than 429, or a body that
\* is not valid JSON, makes the call raise at once: no retry, no result.
C27_SemanticErrorsRaise ==
  [][(htPc = "try" /\ htPc' # "try"
        /\ htLast' \in {"404 json", "404 not json", "200 not json"})
       => htPc' = "threw"]_vars


(***************************************************************************)
(* core/tokens.js: setTokenMetaFromLCD(denom).  A field of the tokens row  *)
(* is Null or a number that tells where its value came from (MetaTag); the *)
(* exponent is a number of decimals.                                       *)
(***************************************************************************)
MetaTag == [old |-> 1, lcd |-> 2, uri |-> 3, registry |-> 4, derived |-> 5, trace |-> 6,
            factory |-> 7]

\* the discretionary columns of tokens
MetaFields == {"name", "symbol", "display", "exponent", "image", "socials", "description",
               "max_supply_base", "total_supply_base"}

\* the rows a token can have: exponent is NOT NULL, every other column is NULL or set
TokenRows ==
  {r \in [MetaFields -> {Null, 0, 6, MetaTag.old}] :
     /\ r["exponent"] \in {0, 6}
     /\ \A f \in MetaFields \ {"exponent"} : r[f] \in {Null, MetaTag.old}}

\* the metadata, the uri payload and the registry asset: missing, present
\* with every field empty, present with every field filled
SourceShapes == {"absent", "empty", "full"}

\* the factory denom answer: Null fields are missing
FactoryAnswers ==
  [max_supply : {Null, MetaTag.factory}, minting_cap : {Null, MetaTag.factory},
   total_supply : {Null, MetaTag.factory}, total_minted : {Null, MetaTag.factory}]

\* a || b
OrElse(a, b) == IF a # Null THEN a ELSE b

FieldOf(shape, tag) == IF shape = "full" THEN tag ELSE Null

\* the merge policy: the values bound to $2..$10 of the UPDATE
mergedMeta(isIbc, lcd, uri, reg, traced) ==
  LET lcd_exp0 == IF lcd = "full" THEN 6 ELSE Null
      derive == ~isIbc /\ lcd_exp0 = Null
      lcd_exponent == IF isIbc /\ lcd_exp0 = Null THEN 6
                      ELSE IF derive THEN 0 ELSE lcd_exp0
      lcd_symbol == IF derive THEN OrElse(FieldOf(lcd, MetaTag.lcd), MetaTag.derived)
                    ELSE FieldOf(lcd, MetaTag.lcd)
      lcd_disp0 == IF derive THEN OrElse(FieldOf(lcd, MetaTag.lcd), MetaTag.derived)
                   ELSE FieldOf(lcd, MetaTag.lcd)
      lcd_display == IF lcd_disp0 = Null /\ isIbc /\ traced THEN MetaTag.trace ELSE lcd_disp0
      fromUri == IF lcd = "full" THEN FieldOf(uri, MetaTag.uri) ELSE Null
      reg_exponent == IF reg = "full" THEN 6 ELSE Null
  IN [f \in MetaFields |->
        CASE f = "name" -> OrElse(FieldOf(reg, MetaTag.registry), FieldOf(lcd, MetaTag.lcd))
          [] f = "symbol" -> OrElse(FieldOf(reg, MetaTag.registry), lcd_symbol)
          [] f = "display" -> OrElse(FieldOf(reg, MetaTag.registry), lcd_display)
          [] f = "exponent" -> IF reg_exponent # Null THEN reg_exponent ELSE lcd_exponent
          [] f = "image" -> OrElse(FieldOf(reg, MetaTag.registry), fromUri)
          [] f = "socials" -> OrElse(fromUri, FieldOf(reg, MetaTag.registry))
          [] f = "description" ->
               OrElse(fromUri, OrElse(FieldOf(reg, MetaTag.registry), FieldOf(lcd, MetaTag.lcd)))
          [] OTHER -> Null]

\* UPDATE tokens SET name = COALESCE($2, name), ... (the supplies are not in this statement)
coalesceUpdate(row, new) ==
  [f \in MetaFields |->
     IF f \in {"max_supply_base", "total_supply_base"} THEN row[f]
     ELSE IF new[f] # Null THEN new[f] ELSE row[f]]

\* UPDATE tokens SET max_supply_base = $2::NUMERIC, total_supply_base = $3::NUMERIC
supplyUpdate(row, fact) ==
  [row EXCEPT !["max_supply_base"] = OrElse(fact.max_supply, fact.minting_cap),
              !["total_supply_base"] = OrElse(fact.total_supply, fact.total_minted)]

MetaInit ==
  /\ SeedRaceIdle
  /\ PipeIdle
  /\ RefineIdle
  /\ CacheIdle
  /\ FlightIdle
  /\ SemaphoreIdle
  /\ RollupIdle
  /\ BatchIdle
  /\ DriverIdle
  /\ BlockIdle
  /\ CandleIdle
  /\ IngestIdle
  /\ CommuteIdle
  /\ StateFlushIdle
  /\ WindowIdle
  /\ CoreTaskIdle
  /\ ListenIdle
  /\ FasttrackIdle
  /\ SeedIdle
  /\ HoldersIdle
  /\ HttpIdle
  /\ mtIbc \in BOOLEAN
  /\ mtBefore \in TokenRows
  /\ mtRow = mtBefore
  /\ mtPc = "meta"

\* everything up to the first UPDATE: trace, LCD metadata, uri payload, registry, merge, UPDATE
MtUpdateMeta ==
  /\ mtPc = "meta"
  /\ \E lcd \in SourceShapes, uri \in SourceShapes, reg \in SourceShapes, traced \in BOOLEAN :
       mtRow' = coalesceUpdate(mtRow, mergedMeta(mtIbc, lcd, uri, reg, traced))
  /\ mtPc' = "supply"
  /\ UNCHANGED <<mtIbc, mtBefore>>
  /\ UNCHANGED notMetaVars

\* the UPDATE rejects: catch (e) { warn(...) }
MtUpdateFails ==
  /\ mtPc = "meta"
  /\ mtPc' = "done"
  /\ UNCHANGED <<mtIbc, mtBefore, mtRow>>
  /\ UNCHANGED notMetaVars

\* const fact = await lcdFactoryDenom(...).catch(() => null); if (fact && (...)) UPDATE
MtSupplies ==
  /\ mtPc = "supply"
  /\ \E answered \in BOOLEAN, fact \in FactoryAnswers :
       mtRow' = IF answered /\ (fact.total_supply # Null \/ fact.total_minted # Null)
                THEN supplyUpdate(mtRow, fact) ELSE mtRow
  /\ mtPc' = "done"
  /\ UNCHANGED <<mtIbc, mtBefore>>
  /\ UNCHANGED notMetaVars

MetaNext ==
  \/ MtUpdateMeta
  \/ MtUpdateFails
  \/ MtSupplies

SpecMeta == MetaInit /\ [][MetaNext]_vars

\* C28: no field of the tokens row that was non-null before
\* setTokenMetaFromLCD is null during or after it, whatever the LCD
\* metadata, the uri payload, the registry and the factory answer hold.
C28_NeverClobber ==
  \A f \in MetaFields : mtBefore[f] # Null => mtRow[f] # Null

\* the sources that carry no exponent: a missing lookup, or one whose fields are empty
NoExponentShapes == SourceShapes \ {"full"}

\* C40: a step of setTokenMetaFromLCD up to its UPDATE in which neither the
\* LCD metadata nor the registry asset carries an exponent leaves the
\* exponent column of the tokens row as it was.
C40_ExponentKeptWithoutSource ==
  [][\A lcd \in NoExponentShapes, reg \in NoExponentShapes, uri \in SourceShapes,
        traced \in BOOLEAN :
       (/\ mtPc = "meta"
        /\ mtPc' = "supply"
        /\ mtRow' = coalesceUpdate(mtRow, mergedMeta(mtIbc, lcd, uri, reg, traced)))
         => mtRow'["exponent"] = mtRow["exponent"]]_vars


(***************************************************************************)
(* jobs/matrix-rollups.js: once() and rollPoolVolumes.  Time is counted in *)
(* units of 30 minutes, so the buckets 30m, 1h, 4h, 24h span 1, 2, 8 and   *)
(* 48 units.  A volume in DISPLAY units is kept as the raw sum and the     *)
(* exponent it is divided by.                                              *)
(***************************************************************************)
BUCKETS == <<<<"30m", 1>>, <<"1h", 2>>, <<"4h", 8>>, <<"24h", 48>>>>

BucketLabels == {BUCKETS[i][1] : i \in 1..Len(BUCKETS)}

\* pool 1 is uzig-quoted; the quote token of pool 2 has exponent 0
RollPools == {1, 2}

rollIsUzigQuote(p) == p = 1

\* CASE WHEN p.is_uzig_quote THEN raw / 1e6 ELSE raw / power(10, COALESCE(qtk.exponent, 6))
rollQuoteExp(p) == IF rollIsUzigQuote(p) THEN 6 ELSE 0

NoMatrixRow == [buy_raw |-> Null, sell_raw |-> Null, exp |-> Null, tx_buy |-> Null,
                tx_sell |-> Null]

RECURSIVE SumAmounts(_, _)
SumAmounts(ts, leg) ==
  IF ts = {} THEN 0
  ELSE LET t == CHOOSE x \in ts : TRUE IN t[leg] + SumAmounts(ts \ {t}, leg)

\* WHERE t.action = 'swap' AND t.created_at >= now() - mins [GROUP BY t.pool_id]
windowSwaps(trs, now, mins, p) ==
  {t \in trs : t.action = "swap" /\ t.pool_id = p /\ t.created_at >= now - mins}

\* the row of q and enriched for pool p
volumeRow(trs, now, mins, p) ==
  LET ws == windowSwaps(trs, now, mins, p) IN
  [buy_raw |-> SumAmounts({t \in ws : t.direction = "buy"}, "offer_amount_base"),
   sell_raw |-> SumAmounts({t \in ws : t.direction = "sell"}, "return_amount_base"),
   exp |-> rollQuoteExp(p),
   tx_buy |-> Cardinality({t \in ws : t.direction = "buy"}),
   tx_sell |-> Cardinality({t \in ws : t.direction = "sell"})]

\* rollPoolVolumes(label, mins): q has a row only for a pool with a swap in
\* the window, and only those rows are upserted
rollPoolVolumes(mx, trs, now, label, mins) ==
  [k \in DOMAIN mx |->
     IF k[2] = label /\ windowSwaps(trs, now, mins, k[1]) # {}
       THEN volumeRow(trs, now, mins, k[1])
       ELSE mx[k]]

RECURSIVE rollBuckets(_, _, _, _)
\* for (const [label, mins] of BUCKETS) await rollPoolVolumes(label, mins)
rollBuckets(mx, trs, now, i) ==
  IF i > Len(BUCKETS) THEN mx
  ELSE rollBuckets(rollPoolVolumes(mx, trs, now, BUCKETS[i][1], BUCKETS[i][2]), trs, now, i + 1)

RollupInit ==
  /\ SeedRaceIdle
  /\ PipeIdle
  /\ RefineIdle
  /\ CacheIdle
  /\ FlightIdle
  /\ SemaphoreIdle
  /\ BatchIdle
  /\ DriverIdle
  /\ BlockIdle
  /\ CandleIdle
  /\ IngestIdle
  /\ CommuteIdle
  /\ StateFlushIdle
  /\ WindowIdle
  /\ CoreTaskIdle
  /\ ListenIdle
  /\ FasttrackIdle
  /\ SeedIdle
  /\ HoldersIdle
  /\ HttpIdle
  /\ MetaIdle
  /\ rlNow = 0
  /\ rlTrades = {}
  /\ rlMatrix = [k \in RollPools \X BucketLabels |-> NoMatrixRow]
  /\ rlPc = "stale"

\* the indexer stores a trades row created now
RlTradeStored ==
  /\ Cardinality(rlTrades) < MaxRollTrades
  /\ \E p \in RollPools, a \in {"swap", "provide"}, d \in {"buy", "sell"}, x \in 1..MaxAmount :
       rlTrades' = rlTrades \cup
         {[id |-> Cardinality(rlTrades) + 1, pool_id |-> p, action |-> a, direction |-> d,
           offer_amount_base |-> x, return_amount_base |-> x, created_at |-> rlNow]}
  /\ rlPc' = "stale"
  /\ UNCHANGED <<rlNow, rlMatrix>>
  /\ UNCHANGED notRollupVars

\* 30 minutes pass
RlTick ==
  /\ rlNow < MaxNow
  /\ rlNow' = rlNow + 1
  /\ rlPc' = "stale"
  /\ UNCHANGED <<rlTrades, rlMatrix>>
  /\ UNCHANGED notRollupVars

\* once(): rollPoolVolumes for every bucket
RlOnce ==
  /\ rlPc = "stale"
  /\ rlMatrix' = rollBuckets(rlMatrix, rlTrades, rlNow, 1)
  /\ rlPc' = "rolled"
  /\ UNCHANGED <<rlNow, rlTrades>>
  /\ UNCHANGED notRollupVars

RollupNext ==
  \/ RlTradeStored
  \/ RlTick
  \/ RlOnce

SpecRollup == RollupInit /\ [][RollupNext]_vars

\* C29: right after a rollup cycle, every pool_matrix row holds the buy and
\* sell quote volumes and the tx counts of exactly the pool's swaps created
\* within the bucket's last minutes; a pool without a row has no such swap.
C29_RollupMatchesWindow ==
  rlPc = "rolled" =>
    \A i \in 1..Len(BUCKETS), p \in RollPools :
      LET row == rlMatrix[<<p, BUCKETS[i][1]>>]
          agg == volumeRow(rlTrades, rlNow, BUCKETS[i][2], p) IN
      IF row = NoMatrixRow
        THEN windowSwaps(rlTrades, rlNow, BUCKETS[i][2], p) = {}
        ELSE row = agg


(***************************************************************************)
(* jobs/holders-refresher.js: class Semaphore, pageSem and                 *)
(* fetchOwnersPageThrottled.  The sweeps of one batch run concurrently and *)
(* each fetches its pages one after the other.                             *)
(***************************************************************************)
Callers == 1..MaxCallers

\* release() with a permit added even when a waiter takes it over
releaseAlwaysFrees(n, q) == n + 1

\* release(): const next = this.q.shift(); if (next) next(); else this.n++;
releaseN(n, q) == IF q # <<>> THEN n ELSE n + 1

\* the fetches between lcdDenomOwners being called and its settling
InFlight == {c \in Callers : smPc[c] = "fetching"}

\* the callers between acquire() returning and release()
Holders == {c \in Callers : smPc[c] \in {"holding", "fetching"}}

SemaphoreInit ==
  /\ SeedRaceIdle
  /\ PipeIdle
  /\ RefineIdle
  /\ CacheIdle
  /\ FlightIdle
  /\ BatchIdle
  /\ DriverIdle
  /\ BlockIdle
  /\ CandleIdle
  /\ IngestIdle
  /\ CommuteIdle
  /\ StateFlushIdle
  /\ WindowIdle
  /\ CoreTaskIdle
  /\ ListenIdle
  /\ FasttrackIdle
  /\ SeedIdle
  /\ HoldersIdle
  /\ HttpIdle
  /\ MetaIdle
  /\ RollupIdle
  /\ smN = LCD_PAGE_CONCURRENCY
  /\ smQ = <<>>
  /\ smPc = [c \in Callers |-> "idle"]
  /\ smVia = [c \in Callers |-> "none"]
  /\ smResult = [c \in Callers |-> "none"]
  /\ smPages = [c \in Callers |-> 0]

\* fetchOwnersPageThrottled: await pageSem.acquire()
SmAcquire(c) ==
  /\ smPc[c] = "idle"
  /\ smPages[c] < MaxFetches
  /\ IF smN > 0
       THEN /\ smN' = smN - 1
            /\ smPc' = [smPc EXCEPT ![c] = "holding"]
            /\ smVia' = [smVia EXCEPT ![c] = "direct"]
            /\ smQ' = smQ
       ELSE /\ smQ' = Append(smQ, c)
            /\ smPc' = [smPc EXCEPT ![c] = "waiting"]
            /\ UNCHANGED <<smN, smVia>>
  /\ UNCHANGED <<smResult, smPages>>
  /\ UNCHANGED notSemaphoreVars

\* the continuation after acquire(): lcdDenomOwners(denom, nextKey) is called
SmFetchStart(c) ==
  /\ smPc[c] = "holding"
  /\ smPc' = [smPc EXCEPT ![c] = "fetching"]
  /\ UNCHANGED <<smN, smQ, smVia, smResult, smPages>>
  /\ UNCHANGED notSemaphoreVars

\* the fetch settles (returns or throws); finally { pageSem.release() }
SmFetchEnd(c) ==
  /\ smPc[c] = "fetching"
  /\ \E outcome \in {"ok", "failed"} :
       smResult' = [smResult EXCEPT ![c] = outcome]
  /\ smN' = releaseN(smN, smQ)
  /\ IF smQ # <<>>
       THEN /\ smQ' = Tail(smQ)
            /\ smPc' = [smPc EXCEPT ![c] = "idle", ![Head(smQ)] = "holding"]
            /\ smVia' = [smVia EXCEPT ![Head(smQ)] = "handoff"]
       ELSE /\ smPc' = [smPc EXCEPT ![c] = "idle"]
            /\ UNCHANGED <<smQ, smVia>>
  /\ smPages' = [smPages EXCEPT ![c] = @ + 1]
  /\ UNCHANGED notSemaphoreVars

SemaphoreNext ==
  \/ \E c \in Callers : SmAcquire(c)
  \/ \E c \in Callers : SmFetchStart(c)
  \/ \E c \in Callers : SmFetchEnd(c)

SpecSemaphore == SemaphoreInit /\ [][SemaphoreNext]_vars

PairContracts == {1, 2}

FlightCallers == 1..MaxFlightCallers

IdleCaller == [pc |-> "idle", contract |-> Null, query |-> Null, got |-> Null]

PendingOn(c) == {q \in 1..Len(sfQueries) : sfQueries[q].contract = c /\ sfQueries[q].status = "pending"}

\* the inflight map with the entry kept when the query fails
inflightKeptOnFailure(m, c, outcome) == IF outcome = "failed" THEN m ELSE [m EXCEPT ![c] = Null]

\* finally { inflight.delete(pair_contract); }
inflightAfterSettle(m, c, outcome) == [m EXCEPT ![c] = Null]

FlightInit ==
  /\ SeedRaceIdle
  /\ PipeIdle
  /\ RefineIdle
  /\ CacheIdle
  /\ BatchIdle
  /\ DriverIdle
  /\ BlockIdle
  /\ CandleIdle
  /\ IngestIdle
  /\ CommuteIdle
  /\ StateFlushIdle
  /\ WindowIdle
  /\ CoreTaskIdle
  /\ ListenIdle
  /\ FasttrackIdle
  /\ SeedIdle
  /\ HoldersIdle
  /\ HttpIdle
  /\ MetaIdle
  /\ RollupIdle
  /\ SemaphoreIdle
  /\ sfInflight = [c \in PairContracts |-> Null]
  /\ sfCache = [c \in PairContracts |-> Null]
  /\ sfQueries = <<>>
  /\ sfCallers = [k \in FlightCallers |-> IdleCaller]

\* fetchPoolReserves(pair_contract) up to its return
SfCall(k, c) ==
  /\ sfCallers[k].pc # "awaiting"
  /\ IF sfCache[c] # Null
       THEN /\ sfCallers' = [sfCallers EXCEPT ![k] =
                 [pc |-> "returned", contract |-> c, query |-> Null, got |-> sfCache[c]]]
            /\ UNCHANGED <<sfInflight, sfQueries>>
       ELSE IF sfInflight[c] # Null
         THEN /\ sfCallers' = [sfCallers EXCEPT ![k] =
                   [pc |-> "awaiting", contract |-> c, query |-> sfInflight[c], got |-> Null]]
              /\ UNCHANGED <<sfInflight, sfQueries>>
         ELSE /\ Len(sfQueries) < MaxQueries
              /\ sfQueries' = Append(sfQueries,
                   [contract |-> c, status |-> "pending", result |-> Null])
              /\ sfInflight' = [sfInflight EXCEPT ![c] = Len(sfQueries) + 1]
              /\ sfCallers' = [sfCallers EXCEPT ![k] =
                   [pc |-> "awaiting", contract |-> c, query |-> Len(sfQueries) + 1, got |-> Null]]
  /\ UNCHANGED sfCache
  /\ UNCHANGED notFlightVars

\* lcdSmart settles: reservesCache.set on success, inflight.delete in finally;
\* the reserves a query reports are named by the query (each reads the chain anew)
SfSettle(q) ==
  /\ q \in 1..Len(sfQueries)
  /\ sfQueries[q].status = "pending"
  /\ \E outcome \in {"ok", "failed"} :
       /\ sfQueries' = [sfQueries EXCEPT ![q] =
            [@ EXCEPT !.status = outcome, !.result = IF outcome = "ok" THEN q ELSE Null]]
       /\ sfCache' = IF outcome = "ok" THEN [sfCache EXCEPT ![sfQueries[q].contract] = q]
                     ELSE sfCache
       /\ sfInflight' = inflightAfterSettle(sfInflight, sfQueries[q].contract, outcome)
  /\ UNCHANGED sfCallers
  /\ UNCHANGED notFlightVars

\* a caller's await on the promise it was given resumes
SfResume(k) ==
  /\ sfCallers[k].pc = "awaiting"
  /\ sfQueries[sfCallers[k].query].status # "pending"
  /\ sfCallers' = [sfCallers EXCEPT ![k] =
       [@ EXCEPT !.pc = IF sfQueries[sfCallers[k].query].status = "ok" THEN "returned" ELSE "threw",
                 !.got = sfQueries[sfCallers[k].query].result]]
  /\ UNCHANGED <<sfInflight, sfCache, sfQueries>>
  /\ UNCHANGED notFlightVars

\* the 2 s of the cache entry pass
SfExpire(c) ==
  /\ sfCache[c] # Null
  /\ sfCache' = [sfCache EXCEPT ![c] = Null]
  /\ UNCHANGED <<sfInflight, sfQueries, sfCallers>>
  /\ UNCHANGED notFlightVars

FlightNext ==
  \/ \E k \in FlightCallers, c \in PairContracts : SfCall(k, c)
  \/ \E q \in 1..MaxQueries : SfSettle(q)
  \/ \E k \in FlightCallers : SfResume(k)
  \/ \E c \in PairContracts : SfExpire(c)

SpecFlight == FlightInit /\ [][FlightNext]_vars

\* C31: a pair contract never has two LCD queries pending; inflight holds an
\* entry for a contract exactly while its query is pending, whether the
\* query then succeeds or fails; every caller waiting on a contract waits on
\* that one query and, once resumed, has that query's result.
C31_SingleFlight ==
  /\ \A c \in PairContracts :
       /\ Cardinality(PendingOn(c)) <= 1
       /\ IF sfInflight[c] = Null THEN PendingOn(c) = {} ELSE PendingOn(c) = {sfInflight[c]}
  /\ \A k \in FlightCallers :
       /\ sfCallers[k].pc = "awaiting" =>
            /\ sfQueries[sfCallers[k].query].contract = sfCallers[k].contract
            /\ sfQueries[sfCallers[k].query].status = "pending" =>
                 sfInflight[sfCallers[k].contract] = sfCallers[k].query
       /\ (sfCallers[k].pc \in {"returned", "threw"} /\ sfCallers[k].query # Null) =>
            /\ sfCallers[k].got = sfQueries[sfCallers[k].query].result
            /\ (sfCallers[k].pc = "threw") = (sfQueries[sfCallers[k].query].status = "failed")

\* two callers shared one query that failed: both were given its failure and
\* the contract's entry is gone; an earlier query of that contract had succeeded
C31_Witness ==
  \E k1, k2 \in FlightCallers :
    /\ k1 # k2
    /\ sfCallers[k1].pc = "threw" /\ sfCallers[k2].pc = "threw"
    /\ sfCallers[k1].query = sfCallers[k2].query
    /\ sfInflight[sfCallers[k1].contract] = Null
    /\ \E q \in 1..Len(sfQueries) :
         /\ q < sfCallers[k1].query
         /\ sfQueries[q].contract = sfCallers[k1].contract
         /\ sfQueries[q].status = "ok"


(***************************************************************************)
(* lib/cache.js: TTLCache.  A JavaScript Map iterates in insertion order   *)
(* and keeps the position of a key that is set again.                      *)
(***************************************************************************)
CacheKeys == 1..MaxCacheKeys

\* the ttlMs of a set, in clock ticks
Ttls == {1, 2}

Undefined == Null

IndexOfKey(m, k) == IF \E i \in 1..Len(m) : m[i].key = k
                    THEN CHOOSE i \in 1..Len(m) : m[i].key = k
                    ELSE 0

\* Map.prototype.set: a new key goes last, an existing key keeps its place
mapSet(m, k, e) ==
  IF IndexOfKey(m, k) = 0 THEN Append(m, e) ELSE [m EXCEPT ![IndexOfKey(m, k)] = e]

\* Map.prototype.delete
mapDelete(m, k) == SelectSeq(m, LAMBDA e : e.key # k)

\* a _purge that drops nothing
purgeNothing(m) == m

\* _purge(): if (size <= max) return; drop the first floor(size / 2) keys
purge(m) ==
  IF Len(m) <= CacheMax THEN m
  ELSE SubSeq(m, (Len(m) \div 2) + 1, Len(m))

CacheInit ==
  /\ SeedRaceIdle
  /\ PipeIdle
  /\ RefineIdle
  /\ BatchIdle
  /\ DriverIdle
  /\ BlockIdle
  /\ CandleIdle
  /\ IngestIdle
  /\ CommuteIdle
  /\ StateFlushIdle
  /\ WindowIdle
  /\ CoreTaskIdle
  /\ ListenIdle
  /\ FasttrackIdle
  /\ SeedIdle
  /\ HoldersIdle
  /\ HttpIdle
  /\ MetaIdle
  /\ RollupIdle
  /\ SemaphoreIdle
  /\ FlightIdle
  /\ tcMap = <<>>
  /\ tcNow = 0
  /\ tcLast = [op |-> "new", key |-> 0, ret |-> Undefined, dropped |-> 0]
  /\ tcEvicted = FALSE

\* set(key, value, ttlMs); the value stored is named by the time it is stored at
TcSet(k, ttl) ==
  /\ tcMap' = purge(mapSet(tcMap, k, [key |-> k, value |-> tcNow, exp |-> tcNow + ttl]))
  /\ tcLast' = [op |-> "set", key |-> k, ret |-> Undefined,
                dropped |-> Len(mapSet(tcMap, k, [key |-> k])) - Len(tcMap')]
  /\ UNCHANGED <<tcNow, tcEvicted>>
  /\ UNCHANGED notCacheVars

\* get(key)
TcGet(k) ==
  /\ LET i == IndexOfKey(tcMap, k) IN
       IF i = 0
         THEN /\ tcLast' = [op |-> "get", key |-> k, ret |-> Undefined, dropped |-> 0]
              /\ UNCHANGED <<tcMap, tcEvicted>>
         ELSE IF tcMap[i].exp < tcNow
           THEN /\ tcMap' = mapDelete(tcMap, k)
                /\ tcLast' = [op |-> "get", key |-> k, ret |-> Undefined, dropped |-> 0]
                /\ tcEvicted' = TRUE
           ELSE /\ tcLast' = [op |-> "get", key |-> k, ret |-> tcMap[i].value, dropped |-> 0]
                /\ UNCHANGED <<tcMap, tcEvicted>>
  /\ UNCHANGED tcNow
  /\ UNCHANGED notCacheVars

\* the clock advances
TcTick ==
  /\ tcNow < MaxCacheNow
  /\ tcNow' = tcNow + 1
  /\ tcLast' = [op |-> "tick", key |-> 0, ret |-> Undefined, dropped |-> 0]
  /\ UNCHANGED <<tcMap, tcEvicted>>
  /\ UNCHANGED notCacheVars

CacheNext ==
  \/ \E k \in CacheKeys, ttl \in Ttls : TcSet(k, ttl)
  \/ \E k \in CacheKeys : TcGet(k)
  \/ TcTick

SpecCache == CacheInit /\ [][CacheNext]_vars

\* C32: a get returns a value only from an entry whose expiry has not passed,
\* and an entry found expired is removed; a set that makes the size exceed
\* max drops the floor(size/2) oldest-inserted entries and nothing else;
\* after every set the size is at most max and the key just set is present
\* with the value set.
C32_CacheBounded ==
  [][/\ tcLast'.op = "get" =>
          LET i == IndexOfKey(tcMap, tcLast'.key) IN
          /\ tcLast'.ret # Undefined =>
               (i # 0 /\ tcMap[i].exp >= tcNow /\ tcLast'.ret = tcMap[i].value)
          /\ (i # 0 /\ tcMap[i].exp < tcNow) =>
               (tcLast'.ret = Undefined /\ IndexOfKey(tcMap', tcLast'.key) = 0)
     /\ tcLast'.op = "set" =>
          LET j == IndexOfKey(tcMap', tcLast'.key)
              grown == IF IndexOfKey(tcMap, tcLast'.key) = 0 THEN Len(tcMap) + 1
                       ELSE Len(tcMap) IN
          /\ Len(tcMap') <= CacheMax
          /\ j # 0
          /\ tcMap'[j].exp > tcNow
          /\ tcMap'[j].value = tcNow
          /\ grown > CacheMax =>
               /\ Len(tcMap') = grown - (grown \div 2)
               /\ \A i \in 1..Len(tcMap') :
                    i < Len(tcMap') => tcMap'[i] = tcMap[i + (grown \div 2)]
          /\ grown <= CacheMax => Len(tcMap') = grown]_vars

\* a set on a full cache has just dropped the oldest half, the key set is
\* the newest entry, and an earlier get had removed an expired entry
C32_Witness ==
  /\ tcLast.op = "set"
  /\ tcLast.dropped = (CacheMax + 1) \div 2
  /\ Len(tcMap) <= CacheMax
  /\ tcMap[Len(tcMap)].key = tcLast.key
  /\ tcEvicted


(***************************************************************************)
(* SpecRefine: one batch of candle items over a table that is empty or     *)
(* holds one row, written by one call of the flushFn of ohlcvQueue and,    *)
(* on a copy of the table, by one call per item in enqueue order.          *)
(***************************************************************************)
RefineInit ==
  /\ SeedRaceIdle
  /\ PipeIdle
  /\ BatchIdle
  /\ DriverIdle
  /\ BlockIdle
  /\ CandleIdle
  /\ IngestIdle
  /\ CommuteIdle
  /\ StateFlushIdle
  /\ WindowIdle
  /\ CoreTaskIdle
  /\ ListenIdle
  /\ FasttrackIdle
  /\ SeedIdle
  /\ HoldersIdle
  /\ HttpIdle
  /\ MetaIdle
  /\ RollupIdle
  /\ SemaphoreIdle
  /\ FlightIdle
  /\ CacheIdle
  /\ rfItems \in UNION {[1..n -> CandleItems] : n \in 1..MaxBatch}
  /\ \E t \in {EmptyOhlcv} \cup {flushCandles(EmptyOhlcv, <<it>>) : it \in CandleItems} :
       /\ rfBatch = t
       /\ rfSeq = t
  /\ rfFlushed = FALSE
  /\ rfDone = 0

\* ohlcvQueue.flushFn(items) on the whole batch
RfFlushBatch ==
  /\ ~rfFlushed
  /\ rfBatch' = flushCandles(rfBatch, rfItems)
  /\ rfFlushed' = TRUE
  /\ UNCHANGED <<rfItems, rfSeq, rfDone>>
  /\ UNCHANGED notRefineVars

\* the next item upserted on its own
RfUpsertOne ==
  /\ rfDone < Len(rfItems)
  /\ rfSeq' = flushCandles(rfSeq, <<rfItems[rfDone + 1]>>)
  /\ rfDone' = rfDone + 1
  /\ UNCHANGED <<rfItems, rfBatch, rfFlushed>>
  /\ UNCHANGED notRefineVars

RefineNext ==
  \/ RfFlushBatch
  \/ RfUpsertOne

SpecRefine == RefineInit /\ [][RefineNext]_vars

\* C33: once the batch is flushed and every one of its items has been
\* upserted on its own in enqueue order, the two tables hold the same rows.
C33_BatchEqualsItemwise ==
  (rfFlushed /\ rfDone = Len(rfItems)) => rfBatch = rfSeq


(***************************************************************************)
(* SpecPipe: main() filling the pipeline with heights 1 and 2 and          *)
(* processHeight of both.  The tx of height 1 holds the create_pair of a   *)
(* pair; both blocks may hold swap / liquidity events of that pair.        *)
(* Height 1 runs its pool task (phase 1) before its own core tasks;        *)
(* height 2 has no pool task.                                              *)
(***************************************************************************)
PipeHeights == {1, 2}

PipeTasks == {<<h, j>> : h \in PipeHeights, j \in 1..MaxPairEvents}

PipeInflight == {h \in PipeHeights : ppPc[h] \in {"rpc", "pools", "core", "settled"}}

\* the reserves event j of height h reports: every event leaves the pool
\* with reserves of its own, named by the event's place in the chain
eventReserves(h, j) == (h - 1) * MaxPairEvents + j

\* getPoolCached(pairContract): the cache, else poolWithTokens reads the pools row
poolFound == ppCached \/ ppPoolRow

PipeInit ==
  /\ SeedRaceIdle
  /\ BatchIdle
  /\ DriverIdle
  /\ BlockIdle
  /\ CandleIdle
  /\ IngestIdle
  /\ CommuteIdle
  /\ StateFlushIdle
  /\ WindowIdle
  /\ CoreTaskIdle
  /\ ListenIdle
  /\ FasttrackIdle
  /\ SeedIdle
  /\ HoldersIdle
  /\ HttpIdle
  /\ MetaIdle
  /\ RollupIdle
  /\ SemaphoreIdle
  /\ FlightIdle
  /\ CacheIdle
  /\ RefineIdle
  /\ ppEvents \in [PipeHeights -> 0..MaxPairEvents]
  /\ ppPc = [h \in PipeHeights |-> "waiting"]
  /\ ppPoolRow = FALSE
  /\ ppCached = FALSE
  /\ ppTask = [t \in PipeTasks |-> "pending"]
  /\ ppQueue = <<>>
  /\ ppState = [p \in {1} |-> Null]

\* the fill loop: inflight.set(h, processHeight(h)) while inflight.size < PIPELINE_DEPTH
PpFill(h) ==
  /\ ppPc[h] = "waiting"
  /\ \A g \in PipeHeights : g < h => ppPc[g] # "waiting"
  /\ Cardinality(PipeInflight) < PIPELINE_DEPTH
  /\ ppPc' = [ppPc EXCEPT ![h] = "rpc"]
  /\ UNCHANGED <<ppEvents, ppPoolRow, ppCached, ppTask, ppQueue, ppState>>
  /\ UNCHANGED notPipeVars

\* processHeight(h): block and results fetched, the txs scanned into poolTasks and tasks
PpScanned(h) ==
  /\ ppPc[h] = "rpc"
  /\ ppPc' = [ppPc EXCEPT ![h] = IF h = 1 THEN "pools" ELSE "core"]
  /\ UNCHANGED <<ppEvents, ppPoolRow, ppCached, ppTask, ppQueue, ppState>>
  /\ UNCHANGED notPipeVars

\* phase 1 of height 1: upsertPool, poolWithTokens, poolsByContract.set
PpPoolTask ==
  /\ ppPc[1] = "pools"
  /\ ppPoolRow' = TRUE
  /\ ppCached' = TRUE
  /\ ppPc' = [ppPc EXCEPT ![1] = "core"]
  /\ UNCHANGED <<ppEvents, ppTask, ppQueue, ppState>>
  /\ UNCHANGED notPipeVars

\* a swap / liquidity task: getPoolCached, then insertTrade and upsertPoolState,
\* or return.  The workers of runWithConcurrency take the tasks of a block in
\* index order, and a task that finds the pool does no I/O before its pushes,
\* so the tasks of one block push in index order.
PpCoreTask(h, j) ==
  /\ ppPc[h] = "core"
  /\ j <= ppEvents[h]
  /\ ppTask[<<h, j>>] = "pending"
  /\ \A i \in 1..(j - 1) : ppTask[<<h, i>>] # "pending"
  /\ ppTask' = [ppTask EXCEPT ![<<h, j>>] = IF poolFound THEN "enqueued" ELSE "dropped"]
  /\ ppCached' = poolFound
  /\ ppQueue' = IF poolFound THEN upsertPoolState(ppQueue, 1, eventReserves(h, j)) ELSE ppQueue
  /\ UNCHANGED <<ppEvents, ppPc, ppPoolRow, ppState>>
  /\ UNCHANGED notPipeVars

\* processHeight(h) returns
PpSettle(h) ==
  /\ ppPc[h] = "core"
  /\ \A j \in 1..ppEvents[h] : ppTask[<<h, j>>] # "pending"
  /\ ppPc' = [ppPc EXCEPT ![h] = "settled"]
  /\ UNCHANGED <<ppEvents, ppPoolRow, ppCached, ppTask, ppQueue, ppState>>
  /\ UNCHANGED notPipeVars

\* commitInOrder: the lowest height in flight has settled; writeCheckpoint(h),
\* then drainAll() flushes what stateQueue holds
PpCommit(h) ==
  /\ ppPc[h] = "settled"
  /\ \A g \in PipeInflight : g >= h
  /\ ppPc' = [ppPc EXCEPT ![h] = "committed"]
  /\ ppState' = upsertStates(ppState, dedupeLastWins(ppQueue))
  /\ ppQueue' = <<>>
  /\ UNCHANGED <<ppEvents, ppPoolRow, ppCached, ppTask>>
  /\ UNCHANGED notPipeVars

\* the timer of stateQueue fires (maxWaitMs after the first push): flushFn
PpStateFlush ==
  /\ ppQueue # <<>>
  /\ ppState' = upsertStates(ppState, dedupeLastWins(ppQueue))
  /\ ppQueue' = <<>>
  /\ UNCHANGED <<ppEvents, ppPc, ppPoolRow, ppCached, ppTask>>
  /\ UNCHANGED notPipeVars

PipeNext ==
  \/ \E h \in PipeHeights : PpFill(h)
  \/ \E h \in PipeHeights : PpScanned(h)
  \/ PpPoolTask
  \/ \E h \in PipeHeights, j \in 1..MaxPairEvents : PpCoreTask(h, j)
  \/ \E h \in PipeHeights : PpSettle(h)
  \/ \E h \in PipeHeights : PpCommit(h)
  \/ PpStateFlush

SpecPipe == PipeInit /\ [][PipeNext]_vars

\* C36: no swap or liquidity event of the pair created at height 1 is
\* dropped: every task of height 1 or 2 that has looked the pool up has
\* called insertTrade, also when the two heights run concurrently.
C36_NoEventDropped ==
  \A t \in PipeTasks : ppTask[t] # "dropped"

\* the events of the pair whose task called insertTrade and upsertPoolState
PipeWritten == {t \in PipeTasks : ppTask[t] = "enqueued"}

\* C37: once both heights are committed, the pool_state row of the pair holds
\* the reserves of the pair's latest event in chain order (height, then
\* position in the block) among the events that were written, however the
\* heights interleaved their enqueues.
C37_StateIsLatestEvent ==
  ((\A h \in PipeHeights : ppPc[h] = "committed") /\ PipeWritten # {}) =>
    \E t \in PipeWritten :
      /\ \A u \in PipeWritten : u[1] < t[1] \/ (u[1] = t[1] /\ u[2] <= t[2])
      /\ ppState[1] = eventReserves(t[1], t[2])

(***************************************************************************)
(* SpecSeedRace: the fast-track handler of a new uzig-quoted pool, whose   *)
(* seed step follows its metadata, holders, security and matrix steps,     *)
(* while the indexer writes swaps of the same pool.  The price of a swap   *)
(* and its candle are written in one step; the seed pushes its candle item *)
(* to the ohlcvQueue of its process, which flushes it on its timer.        *)
(***************************************************************************)
\* the steps of the handler before seedInitialFromFirstProvide
StepsBeforeSeed == Len(FasttrackSteps) - 1

\* positions of the handler after its seed step and after the flush of the seed candle
Seeded == StepsBeforeSeed + 1

SeedFlushed == StepsBeforeSeed + 2

\* upsertPrice: ON CONFLICT (token_id, pool_id) DO UPDATE SET price_in_zig = EXCLUDED.price_in_zig
upsertPrice(row, price_in_zig) == price_in_zig

candleItem(minute, price, vol, inc) ==
  [pool_id |-> 1, bucket_start |-> minute, price |-> price, vol_zig |-> vol,
   trade_inc |-> inc, liquidity_zig |-> Null]

SeedRaceInit ==
  /\ BatchIdle
  /\ DriverIdle
  /\ BlockIdle
  /\ CandleIdle
  /\ IngestIdle
  /\ CommuteIdle
  /\ StateFlushIdle
  /\ WindowIdle
  /\ CoreTaskIdle
  /\ ListenIdle
  /\ FasttrackIdle
  /\ SeedIdle
  /\ HoldersIdle
  /\ HttpIdle
  /\ MetaIdle
  /\ RollupIdle
  /\ SemaphoreIdle
  /\ FlightIdle
  /\ CacheIdle
  /\ RefineIdle
  /\ PipeIdle
  /\ srPc = 0
  /\ srProvide \in [minute : Minutes, price : 1..MaxPrice]
  /\ srPrices = Null
  /\ srOhlcv = EmptyOhlcv
  /\ srSwaps = 0

\* refreshMetaOnce, refreshHoldersOnce, scanTokenOnce, refreshPoolMatrixOnce ... settle
SrStep ==
  /\ srPc \in 0..(StepsBeforeSeed - 1)
  /\ srPc' = srPc + 1
  /\ UNCHANGED <<srProvide, srPrices, srOhlcv, srSwaps>>
  /\ UNCHANGED notSeedRaceVars

\* the indexer's swap task: upsertPrice and upsertOHLCV1m, flushed
SrSwap ==
  /\ srSwaps < MaxRaceSwaps
  /\ \E m \in Minutes, x \in 1..MaxPrice :
       /\ m >= srProvide.minute
       /\ srPrices' = upsertPrice(srPrices, x)
       /\ srOhlcv' = flushCandles(srOhlcv, <<candleItem(m, x, 1, 1)>>)
  /\ srSwaps' = srSwaps + 1
  /\ UNCHANGED <<srPc, srProvide>>
  /\ UNCHANGED notSeedRaceVars

\* seedInitialFromFirstProvide: upsertPrice(price), upsertOHLCV1m at the provide's minute
SrSeed ==
  /\ srPc = StepsBeforeSeed
  /\ srPrices' = upsertPrice(srPrices, srProvide.price)
  /\ srPc' = Seeded
  /\ UNCHANGED <<srProvide, srOhlcv, srSwaps>>
  /\ UNCHANGED notSeedRaceVars

\* the timer of the handler's ohlcvQueue fires: flushFn on the seed item
SrSeedFlush ==
  /\ srPc = Seeded
  /\ srOhlcv' = flushCandles(srOhlcv, <<candleItem(srProvide.minute, srProvide.price, 0, 0)>>)
  /\ srPc' = SeedFlushed
  /\ UNCHANGED <<srProvide, srPrices, srSwaps>>
  /\ UNCHANGED notSeedRaceVars

SeedRaceNext ==
  \/ SrStep
  \/ SrSwap
  \/ SrSeed
  \/ SrSeedFlush

SpecSeedRace == SeedRaceInit /\ [][SeedRaceNext]_vars

\* C38: the seed step leaves a Price row that a swap has already written as
\* it is, and the flush of the seed candle leaves the close of a candle row
\* that a swap has already written as it is.
C38_SeedKeepsNewerData ==
  [][/\ (srPc' = Seeded /\ srPc # Seeded /\ srPrices # Null) => srPrices' = srPrices
     /\ (srPc' = SeedFlushed /\ srPc = Seeded
          /\ srOhlcv[keyOf(1, srProvide.minute)] # NoRow)
         => srOhlcv'[keyOf(1, srProvide.minute)].close
              = srOhlcv[keyOf(1, srProvide.minute)].close]_vars

====
